---- MODULE Spec2Model ----
(***************************************************************************)
(* REBA ergonomic scoring engine of the pose-analysis demo: the landmark   *)
(* geometry (ergonomics-utils.ts), the exposure accumulator and the REBA   *)
(* tables (reba-utils.ts) and the session handling of the uploaded-video   *)
(* page (video-upload.ts).                                                 *)
(*                                                                         *)
(* Units.  Coordinates are integers in units of 1/200 of the normalized    *)
(* image size, visibilities in hundredths, angles in hundredths of a       *)
(* degree, elapsed time in whole seconds, performance.now() in ms.         *)
(* A null angle is the integer NULL; every real angle is >= 0.             *)
(*                                                                         *)
(* Objects.  JavaScript objects are shared by reference: the six           *)
(* component objects and the six exposureTimeBins objects of the exported  *)
(* initialRebaData are heap objects that updateRebaData mutates in place.  *)
(* initialRebaData holds the module object, binsHeap the six               *)
(* exposureTimeBins objects (no code ever copies them), currentRef says    *)
(* whether a session's currentRebaData is the module object itself or an   *)
(* object returned by updateRebaData (held in currentOwn).                 *)
(***************************************************************************)
EXTENDS Integers, Sequences, FiniteSets, TLC

\* ------------------------------------------------------------------ bounds
MaxFrames == 3
MaxVideos == 2

\* --------------------------------------------------------------- constants
NULL == -1
NoVis == -1
AngleScale == 100
VISIBILITY_THRESHOLD == 30
CHANGE_THRESHOLD == 5
FlagDistance == 10
ArmAbductedDegrees == 20
WristBentDegrees == 15

NOSE == 0
LEFT_EAR == 7
RIGHT_EAR == 8
LEFT_SHOULDER == 11
RIGHT_SHOULDER == 12
LEFT_ELBOW == 13
RIGHT_ELBOW == 14
LEFT_WRIST == 15
RIGHT_WRIST == 16
LEFT_INDEX == 19
RIGHT_INDEX == 20
LEFT_HIP == 23
RIGHT_HIP == 24
LEFT_KNEE == 25
RIGHT_KNEE == 26

UsedLandmarks ==
    {NOSE, LEFT_EAR, RIGHT_EAR, LEFT_SHOULDER, RIGHT_SHOULDER, LEFT_ELBOW,
     RIGHT_ELBOW, LEFT_WRIST, RIGHT_WRIST, LEFT_INDEX, RIGHT_INDEX, LEFT_HIP,
     RIGHT_HIP, LEFT_KNEE, RIGHT_KNEE}

Segments == {"trunk", "neck", "legs", "arm", "forearm", "wrist"}

\* ------------------------------------------------------------ arithmetic
Abs(n) == IF n < 0 THEN -n ELSE n

Min2(a, b) == IF a < b THEN a ELSE b

Max2(a, b) == IF a > b THEN a ELSE b

RECURSIVE GCD(_, _)
GCD(a, b) == IF b = 0 THEN a ELSE GCD(b, a % b)

\* Math.acos(c / sqrt(a*a + c*c)) * (180 / Math.PI) in hundredths of a degree
\* (resolution 0.02 degree), for the coprime pairs with a in 0..8, c in -8..8.
AcosDegTable ==
    <<0, -1>> :> 18000 @@ <<0, 1>> :> 0 @@ <<1, -8>> :> 17288 @@ <<1, -7>> :> 17186 @@
    <<1, -6>> :> 17054 @@ <<1, -5>> :> 16870 @@ <<1, -4>> :> 16596 @@ <<1, -3>> :> 16156 @@
    <<1, -2>> :> 15344 @@ <<1, -1>> :> 13500 @@ <<1, 0>> :> 9000 @@ <<1, 1>> :> 4500 @@
    <<1, 2>> :> 2656 @@ <<1, 3>> :> 1844 @@ <<1, 4>> :> 1404 @@ <<1, 5>> :> 1130 @@
    <<1, 6>> :> 946 @@ <<1, 7>> :> 814 @@ <<1, 8>> :> 712 @@ <<2, -7>> :> 16406 @@
    <<2, -5>> :> 15820 @@ <<2, -3>> :> 14630 @@ <<2, -1>> :> 11656 @@ <<2, 1>> :> 6344 @@
    <<2, 3>> :> 3370 @@ <<2, 5>> :> 2180 @@ <<2, 7>> :> 1594 @@ <<3, -8>> :> 15944 @@
    <<3, -7>> :> 15680 @@ <<3, -5>> :> 14904 @@ <<3, -4>> :> 14314 @@ <<3, -2>> :> 12370 @@
    <<3, -1>> :> 10844 @@ <<3, 1>> :> 7156 @@ <<3, 2>> :> 5630 @@ <<3, 4>> :> 3686 @@
    <<3, 5>> :> 3096 @@ <<3, 7>> :> 2320 @@ <<3, 8>> :> 2056 @@ <<4, -7>> :> 15026 @@
    <<4, -5>> :> 14134 @@ <<4, -3>> :> 12686 @@ <<4, -1>> :> 10404 @@ <<4, 1>> :> 7596 @@
    <<4, 3>> :> 5314 @@ <<4, 5>> :> 3866 @@ <<4, 7>> :> 2974 @@ <<5, -8>> :> 14800 @@
    <<5, -7>> :> 14446 @@ <<5, -6>> :> 14020 @@ <<5, -4>> :> 12866 @@ <<5, -3>> :> 12096 @@
    <<5, -2>> :> 11180 @@ <<5, -1>> :> 10130 @@ <<5, 1>> :> 7870 @@ <<5, 2>> :> 6820 @@
    <<5, 3>> :> 5904 @@ <<5, 4>> :> 5134 @@ <<5, 6>> :> 3980 @@ <<5, 7>> :> 3554 @@
    <<5, 8>> :> 3200 @@ <<6, -7>> :> 13940 @@ <<6, -5>> :> 12980 @@ <<6, -1>> :> 9946 @@
    <<6, 1>> :> 8054 @@ <<6, 5>> :> 5020 @@ <<6, 7>> :> 4060 @@ <<7, -8>> :> 13882 @@
    <<7, -6>> :> 13060 @@ <<7, -5>> :> 12554 @@ <<7, -4>> :> 11974 @@ <<7, -3>> :> 11320 @@
    <<7, -2>> :> 10594 @@ <<7, -1>> :> 9814 @@ <<7, 1>> :> 8186 @@ <<7, 2>> :> 7406 @@
    <<7, 3>> :> 6680 @@ <<7, 4>> :> 6026 @@ <<7, 5>> :> 5446 @@ <<7, 6>> :> 4940 @@
    <<7, 8>> :> 4118 @@ <<8, -7>> :> 13118 @@ <<8, -5>> :> 12200 @@ <<8, -3>> :> 11056 @@
    <<8, -1>> :> 9712 @@ <<8, 1>> :> 8288 @@ <<8, 3>> :> 6944 @@ <<8, 5>> :> 5800 @@
    <<8, 7>> :> 4882

\* acos(dot / magnitude) in degrees, magnitude = sqrt(deltaX^2 + dot^2) > 0.
AcosDeg(deltaX, dot) ==
    LET g == GCD(Abs(deltaX), Abs(dot))
    IN  AcosDegTable[<<Abs(deltaX) \div g, dot \div g>>]

\* ------------------------------------------------- landmark geometry module
isLandmarkDetectedAnyVisibility(landmark) ==
    landmark.visibility # NoVis => landmark.visibility >= 0

isLandmarkDetected(landmark) ==
    IF landmark.visibility # NoVis
    THEN landmark.visibility >= VISIBILITY_THRESHOLD
    ELSE TRUE

\* Coordinates of a pose are even, so the midpoint is on the grid.
getMidShoulder(leftShoulder, rightShoulder) ==
    [x |-> (leftShoulder.x + rightShoulder.x) \div 2,
     y |-> (leftShoulder.y + rightShoulder.y) \div 2]

getMidHip(leftHip, rightHip) ==
    [x |-> (leftHip.x + rightHip.x) \div 2,
     y |-> (leftHip.y + rightHip.y) \div 2]

findAngleSigned(x1, y1, x2, y2) ==
    LET deltaX == x2 - x1
        deltaY == y2 - y1
        dotProduct == deltaX * 0 + deltaY * (-1)
    IN  IF deltaX # 0 \/ deltaY # 0
        THEN LET angleDegBetween == AcosDeg(deltaX, dotProduct)
             IN  IF deltaX < 0 THEN -angleDegBetween ELSE angleDegBetween
        ELSE 0

findAngle(x1, y1, x2, y2) ==
    LET deltaX == x2 - x1
        deltaY == y2 - y1
        dotProduct == deltaX * 0 + deltaY * (-1)
    IN  IF deltaX # 0 \/ deltaY # 0
        THEN LET angleDegBetween == AcosDeg(deltaX, dotProduct)
             IN  Abs(IF deltaX < 0 THEN -angleDegBetween ELSE angleDegBetween)
        ELSE 0

findAngleForLimbs(x1, y1, x2, y2) ==
    LET deltaX == x2 - x1
        deltaY == y2 - y1
        dotProduct == deltaX * 0 + deltaY * 1
    IN  IF deltaX # 0 \/ deltaY # 0
        THEN LET angleDegBetween == AcosDeg(deltaX, dotProduct)
             IN  Abs(IF deltaX < 0 THEN -angleDegBetween ELSE angleDegBetween)
        ELSE 0

\* The head reference of calculateNeckAngle: a landmark index, or NULL.
\* A comparison with a non-numeric visibility (undefined) is false.
VisGeq(a, b) == a # NoVis /\ b # NoVis /\ a >= b

VisGt(a, b) == a # NoVis /\ b # NoVis /\ a > b

headReferenceEarsFirst(leftEar, rightEar, nose) ==
    LET firstDetected ==
            IF isLandmarkDetected(leftEar) THEN LEFT_EAR
            ELSE IF isLandmarkDetected(rightEar) THEN RIGHT_EAR
            ELSE IF isLandmarkDetected(nose) THEN NOSE
            ELSE NULL
    IN  IF leftEar.visibility # NoVis /\ rightEar.visibility # NoVis
           /\ (isLandmarkDetected(leftEar) \/ isLandmarkDetected(rightEar))
        THEN (IF leftEar.visibility >= rightEar.visibility THEN LEFT_EAR ELSE RIGHT_EAR)
        ELSE firstDetected

headReference(leftEar, rightEar, nose) ==
    LET leftEarVis == leftEar.visibility
        rightEarVis == rightEar.visibility
        noseVis == nose.visibility
        leftEarVisIsNum == leftEarVis # NoVis
        rightEarVisIsNum == rightEarVis # NoVis
        noseVisIsNum == noseVis # NoVis
        firstDetected ==
            IF isLandmarkDetected(leftEar) THEN LEFT_EAR
            ELSE IF isLandmarkDetected(rightEar) THEN RIGHT_EAR
            ELSE IF isLandmarkDetected(nose) THEN NOSE
            ELSE NULL
    IN  IF leftEarVisIsNum /\ rightEarVisIsNum /\ leftEarVis >= rightEarVis
           /\ VisGeq(leftEarVis, noseVis)
        THEN (IF isLandmarkDetected(leftEar) THEN LEFT_EAR ELSE NULL)
        ELSE IF rightEarVisIsNum /\ leftEarVisIsNum /\ rightEarVis >= leftEarVis
                /\ VisGeq(rightEarVis, noseVis)
        THEN (IF isLandmarkDetected(rightEar) THEN RIGHT_EAR ELSE NULL)
        ELSE IF noseVisIsNum /\ VisGt(noseVis, leftEarVis) /\ VisGt(noseVis, rightEarVis)
        THEN (IF isLandmarkDetected(nose) THEN NOSE ELSE NULL)
        ELSE firstDetected

\* NaN (no head reference) is returned as NULL: analyzeErgonomics maps it to null.
calculateNeckAngle(leftEar, rightEar, nose, midShoulder) ==
    LET ref == headReference(leftEar, rightEar, nose)
        head == IF ref = LEFT_EAR THEN leftEar
                ELSE IF ref = RIGHT_EAR THEN rightEar ELSE nose
    IN  IF ref = NULL THEN NULL
        ELSE findAngle(midShoulder.x, midShoulder.y, head.x, head.y)

calculateTrunkAngle(midShoulder, midHip) ==
    findAngle(midHip.x, midHip.y, midShoulder.x, midShoulder.y)

\* The interior angle acos(v1.v2 / (|v1||v2|)) is the difference of the two
\* directions measured from the same axis, folded into [0, 180].
SignedDown(x1, y1, x2, y2) ==
    IF x2 - x1 < 0 THEN -findAngleForLimbs(x1, y1, x2, y2)
    ELSE findAngleForLimbs(x1, y1, x2, y2)

calculateElbowAngle(shoulder, elbow, wrist) ==
    LET zero1 == elbow.x = shoulder.x /\ elbow.y = shoulder.y
        zero2 == wrist.x = elbow.x /\ wrist.y = elbow.y
        d == Abs(SignedDown(shoulder.x, shoulder.y, elbow.x, elbow.y)
                 - SignedDown(elbow.x, elbow.y, wrist.x, wrist.y))
    IN  IF ~zero1 /\ ~zero2
        THEN (IF d > 180 * AngleScale THEN 360 * AngleScale - d ELSE d)
        ELSE 180 * AngleScale

calculateArmAngle(shoulder, elbow) ==
    findAngleForLimbs(shoulder.x, shoulder.y, elbow.x, elbow.y)

calculateForearmAngle(elbow, wrist) ==
    findAngleForLimbs(elbow.x, elbow.y, wrist.x, wrist.y)

calculateWristAngle(wrist, indexFinger) ==
    findAngleForLimbs(wrist.x, wrist.y, indexFinger.x, indexFinger.y)

calculateLegAngle(hip, knee) ==
    findAngleForLimbs(hip.x, hip.y, knee.x, knee.y)

AllNullAngles ==
    [neckAngle |-> NULL, trunkAngle |-> NULL,
     leftElbowAngle |-> NULL, rightElbowAngle |-> NULL,
     leftArmAngle |-> NULL, rightArmAngle |-> NULL,
     leftForearmAngle |-> NULL, rightForearmAngle |-> NULL,
     leftWristAngle |-> NULL, rightWristAngle |-> NULL,
     leftLegAngle |-> NULL, rightLegAngle |-> NULL]

\* landmarks = [length, at]: element i exists iff i < length.
analyzeErgonomics(landmarks) ==
    LET requiredLandmarks == RIGHT_KNEE
        lm == landmarks.at
        D(i) == isLandmarkDetected(lm[i])
        midShoulder == getMidShoulder(lm[LEFT_SHOULDER], lm[RIGHT_SHOULDER])
        midHip == getMidHip(lm[LEFT_HIP], lm[RIGHT_HIP])
    IN  IF landmarks.length <= requiredLandmarks THEN AllNullAngles
        ELSE
        [neckAngle |->
            IF D(LEFT_SHOULDER) /\ D(RIGHT_SHOULDER)
               /\ (D(LEFT_EAR) \/ D(RIGHT_EAR) \/ D(NOSE))
            THEN calculateNeckAngle(lm[LEFT_EAR], lm[RIGHT_EAR], lm[NOSE], midShoulder)
            ELSE NULL,
         trunkAngle |->
            IF D(LEFT_SHOULDER) /\ D(RIGHT_SHOULDER) /\ D(LEFT_HIP) /\ D(RIGHT_HIP)
            THEN calculateTrunkAngle(midShoulder, midHip) ELSE NULL,
         leftElbowAngle |->
            IF D(LEFT_SHOULDER) /\ D(LEFT_ELBOW) /\ D(LEFT_WRIST)
            THEN calculateElbowAngle(lm[LEFT_SHOULDER], lm[LEFT_ELBOW], lm[LEFT_WRIST])
            ELSE NULL,
         rightElbowAngle |->
            IF D(RIGHT_SHOULDER) /\ D(RIGHT_ELBOW) /\ D(RIGHT_WRIST)
            THEN calculateElbowAngle(lm[RIGHT_SHOULDER], lm[RIGHT_ELBOW], lm[RIGHT_WRIST])
            ELSE NULL,
         leftArmAngle |->
            IF D(LEFT_SHOULDER) /\ D(LEFT_ELBOW)
            THEN calculateArmAngle(lm[LEFT_SHOULDER], lm[LEFT_ELBOW]) ELSE NULL,
         rightArmAngle |->
            IF D(RIGHT_SHOULDER) /\ D(RIGHT_ELBOW)
            THEN calculateArmAngle(lm[RIGHT_SHOULDER], lm[RIGHT_ELBOW]) ELSE NULL,
         leftForearmAngle |->
            IF D(LEFT_ELBOW) /\ D(LEFT_WRIST)
            THEN calculateForearmAngle(lm[LEFT_ELBOW], lm[LEFT_WRIST]) ELSE NULL,
         rightForearmAngle |->
            IF D(RIGHT_ELBOW) /\ D(RIGHT_WRIST)
            THEN calculateForearmAngle(lm[RIGHT_ELBOW], lm[RIGHT_WRIST]) ELSE NULL,
         leftWristAngle |->
            IF D(LEFT_WRIST) /\ D(LEFT_INDEX)
            THEN calculateWristAngle(lm[LEFT_WRIST], lm[LEFT_INDEX]) ELSE NULL,
         rightWristAngle |->
            IF D(RIGHT_WRIST) /\ D(RIGHT_INDEX)
            THEN calculateWristAngle(lm[RIGHT_WRIST], lm[RIGHT_INDEX]) ELSE NULL,
         leftLegAngle |->
            IF D(LEFT_HIP) /\ D(LEFT_KNEE)
            THEN calculateLegAngle(lm[LEFT_HIP], lm[LEFT_KNEE]) ELSE NULL,
         rightLegAngle |->
            IF D(RIGHT_HIP) /\ D(RIGHT_KNEE)
            THEN calculateLegAngle(lm[RIGHT_HIP], lm[RIGHT_KNEE]) ELSE NULL]

\* ------------------------------------------------------ exposure accumulator
\* Object.entries(REBA_ANGLE_BINS[component]) in declaration order.
REBA_ANGLE_BINS ==
    [trunk   |-> << [range |-> "0-20", score |-> 1], [range |-> "21-60", score |-> 2],
                    [range |-> "61+", score |-> 3] >>,
     neck    |-> << [range |-> "0-20", score |-> 1], [range |-> "21+", score |-> 2] >>,
     legs    |-> << [range |-> "bilateral", score |-> 1],
                    [range |-> "unilateral", score |-> 2] >>,
     arm     |-> << [range |-> "0-20", score |-> 1], [range |-> "21-60", score |-> 2],
                    [range |-> "61+", score |-> 3] >>,
     forearm |-> << [range |-> "0-20", score |-> 1], [range |-> "21-60", score |-> 2],
                    [range |-> "61+", score |-> 3] >>,
     wrist   |-> << [range |-> "0-20", score |-> 1], [range |-> "21-60", score |-> 2],
                    [range |-> "61+", score |-> 3] >>]

\* range.endsWith('+'), parseInt(range.slice(0, -1)) and range.split('-').map(Number)
\* on the labels of the angle-based components, in degrees.
ParseRange(range) ==
    CASE range = "0-20"  -> [plus |-> FALSE, lower |-> 0, upper |-> 20]
      [] range = "21-60" -> [plus |-> FALSE, lower |-> 21, upper |-> 60]
      [] range = "61+"   -> [plus |-> TRUE, lower |-> 61, upper |-> 61]
      [] range = "21+"   -> [plus |-> TRUE, lower |-> 21, upper |-> 21]

DefaultBinUnknown == "unknown"

\* return "0-20": the range when no declared range holds the angle
DefaultBin == "0-20"

RangeHolds(absAngle, range) ==
    LET r == ParseRange(range)
    IN  IF r.plus THEN absAngle >= r.lower * AngleScale
        ELSE absAngle >= r.lower * AngleScale /\ absAngle <= r.upper * AngleScale

getRebaAngleBin(angle, component) ==
    LET bins == REBA_ANGLE_BINS[component]
        absAngle == Abs(angle)
        hits == {i \in 1..Len(bins) : RangeHolds(absAngle, bins[i].range)}
    IN  IF hits = {} THEN DefaultBin
        ELSE bins[CHOOSE i \in hits : \A j \in hits : i <= j].range

getLegsBinEitherKnee(leftHip, rightHip, leftKnee, rightKnee) ==
    IF leftKnee.y > leftHip.y \/ rightKnee.y > rightHip.y
    THEN "unilateral" ELSE "bilateral"

getLegsBin(leftHip, rightHip, leftKnee, rightKnee) ==
    IF leftKnee.y > leftHip.y /\ rightKnee.y > rightHip.y
    THEN "unilateral" ELSE "bilateral"

\* bins[range] || 0
BinTime(bins, range) == IF range \in DOMAIN bins THEN bins[range] ELSE 0

ReplacesMaxGeq(time, maxTime) == time >= maxTime

ReplacesMax(time, maxTime) == time > maxTime

\* The loop of calculateScoreFromBins from entry i on, with the running
\* maxTime and scoreForMaxTime.
RECURSIVE ScoreLoop(_, _, _, _, _)
ScoreLoop(bins, angleBins, i, maxTime, scoreForMaxTime) ==
    IF i > Len(angleBins) THEN scoreForMaxTime
    ELSE LET time == BinTime(bins, angleBins[i].range)
         IN  IF ReplacesMax(time, maxTime)
             THEN ScoreLoop(bins, angleBins, i + 1, time, angleBins[i].score)
             ELSE ScoreLoop(bins, angleBins, i + 1, maxTime, scoreForMaxTime)

calculateScoreFromBins(bins, component) ==
    ScoreLoop(bins, REBA_ANGLE_BINS[component], 1, 0, 0)

\* frequency = eventCount / (exposureTime / 60), kept as a reduced fraction.
Fraction(n, d) == LET g == GCD(n, d) IN [num |-> n \div g, den |-> d \div g]

FractionGt(f, k) == f.num > k * f.den

Frequency(eventCount, exposureTime) ==
    IF exposureTime > 0 THEN Fraction(eventCount * 60, exposureTime)
    ELSE [num |-> 0, den |-> 1]

InitialComponent ==
    [angle |-> NULL, exposureTime |-> 0, frequency |-> [num |-> 0, den |-> 1],
     lastChangeTime |-> 0, eventCount |-> 0, score |-> 0]

InitialBins ==
    [trunk   |-> ("0-20" :> 0 @@ "21-60" :> 0 @@ "61+" :> 0),
     neck    |-> ("0-20" :> 0 @@ "21+" :> 0),
     legs    |-> ("bilateral" :> 0 @@ "unilateral" :> 0),
     arm     |-> ("0-20" :> 0 @@ "21-60" :> 0 @@ "61+" :> 0),
     forearm |-> ("0-20" :> 0 @@ "21-60" :> 0 @@ "61+" :> 0),
     wrist   |-> ("0-20" :> 0 @@ "21-60" :> 0 @@ "61+" :> 0)]

AccumulateOverwrite(bins, bin, deltaTime) ==
    (bin :> deltaTime) @@ bins

\* component.exposureTimeBins[bin] += deltaTime, or the bin is added.
Accumulate(bins, bin, deltaTime) ==
    IF bin \in DOMAIN bins
    THEN [bins EXCEPT ![bin] = @ + deltaTime]
    ELSE (bin :> deltaTime) @@ bins

AngleChangedAlways(currentAngle, previousAngle) ==
    Abs(currentAngle - previousAngle) > CHANGE_THRESHOLD * AngleScale

\* Math.abs(currentAngle - (component.angle ?? currentAngle)) > CHANGE_THRESHOLD
AngleChanged(currentAngle, previousAngle) ==
    Abs(currentAngle - (IF previousAngle = NULL THEN currentAngle ELSE previousAngle))
        > CHANGE_THRESHOLD * AngleScale

nullAngleUpdateErasesHistory(component, bins, componentKey) ==
    [mutated |-> InitialComponent, returned |-> InitialComponent, bins |-> bins]

\* The newAngle === null branch of updateComponent: the score is re-derived in
\* place and a copy with angle null is returned.
nullAngleUpdate(component, bins, componentKey) ==
    LET scored == [component EXCEPT
                      !.score = calculateScoreFromBins(bins, componentKey)]
    IN  [mutated |-> scored, returned |-> [scored EXCEPT !.angle = NULL],
         bins |-> bins]

\* updateComponent on the component object `component` whose exposureTimeBins
\* object holds `bins`.  mutated: the fields of that object afterwards (it is
\* changed in place); returned: the fields of the copy that is returned; bins:
\* the exposureTimeBins object afterwards (the copy shares it).
updateComponent(component, bins, componentKey, newAngle, currentTime, deltaTime, landmarks) ==
    IF newAngle = NULL
    THEN nullAngleUpdate(component, bins, componentKey)
    ELSE LET currentAngle == Abs(newAngle)
             angleChanged == AngleChanged(currentAngle, component.angle)
             eventCount == IF angleChanged THEN component.eventCount + 1
                           ELSE component.eventCount
             lastChangeTime == IF angleChanged THEN currentTime
                               ELSE component.lastChangeTime
             exposureTime == component.exposureTime + deltaTime
             bin == IF componentKey = "legs"
                    THEN getLegsBin(landmarks.at[LEFT_HIP], landmarks.at[RIGHT_HIP],
                                    landmarks.at[LEFT_KNEE], landmarks.at[RIGHT_KNEE])
                    ELSE getRebaAngleBin(currentAngle, componentKey)
             newBins == Accumulate(bins, bin, deltaTime)
             after == [angle |-> currentAngle,
                       exposureTime |-> exposureTime,
                       frequency |-> Frequency(eventCount, exposureTime),
                       lastChangeTime |-> lastChangeTime,
                       eventCount |-> eventCount,
                       score |-> calculateScoreFromBins(newBins, componentKey)]
         IN  [mutated |-> after, returned |-> after, bins |-> newBins]

PairAngleLeftFirst(left, right) ==
    IF left # NULL THEN Abs(left)
    ELSE IF right # NULL THEN Abs(right)
    ELSE NULL

\* The representative angle of a left/right pair.
PairAngle(left, right) ==
    IF left # NULL /\ right # NULL THEN (Abs(left) + Abs(right)) \div 2
    ELSE IF left # NULL THEN Abs(left)
    ELSE IF right # NULL THEN Abs(right)
    ELSE NULL

\* The angle handed to updateComponent for each component.
ComponentAngle(newAngles, componentKey) ==
    CASE componentKey = "trunk" -> newAngles.trunkAngle
      [] componentKey = "neck" -> newAngles.neckAngle
      [] componentKey = "legs" -> PairAngle(newAngles.leftLegAngle, newAngles.rightLegAngle)
      [] componentKey = "arm" -> PairAngle(newAngles.leftArmAngle, newAngles.rightArmAngle)
      [] componentKey = "forearm" ->
            PairAngle(newAngles.leftForearmAngle, newAngles.rightForearmAngle)
      [] componentKey = "wrist" ->
            PairAngle(newAngles.leftWristAngle, newAngles.rightWristAngle)

\* ---------------------------------------------------------- posture flags
\* updateRebaData reads landmark.visibility of these indices without a length
\* check; reading a property of undefined raises a TypeError.
FlagLandmarks ==
    {LEFT_EAR, RIGHT_EAR, NOSE, LEFT_SHOULDER, RIGHT_SHOULDER, LEFT_HIP, RIGHT_HIP,
     LEFT_ELBOW, RIGHT_ELBOW, LEFT_INDEX, RIGHT_INDEX, LEFT_WRIST, RIGHT_WRIST}

FlagDetectionThrows(landmarks) == \E i \in FlagLandmarks : i >= landmarks.length

SquaredDistance(a, b) == (a.x - b.x) * (a.x - b.x) + (a.y - b.y) * (a.y - b.y)

\* The seven flags of updatedData after the detection block; a flag whose
\* landmarks are not detected keeps the value copied from rebaData.
DetectFlags(rebaData, newAngles, landmarks) ==
    LET lm == landmarks.at
        D(i) == isLandmarkDetected(lm[i])
        midShoulder == getMidShoulder(lm[LEFT_SHOULDER], lm[RIGHT_SHOULDER])
    IN  [neckTwisted |->
            IF D(LEFT_EAR) /\ D(RIGHT_EAR)
            THEN Abs(lm[LEFT_EAR].y - lm[RIGHT_EAR].y) > FlagDistance
            ELSE IF D(NOSE)
            THEN Abs(lm[NOSE].x - midShoulder.x) > FlagDistance
            ELSE rebaData.neckTwisted,
         trunkTwisted |->
            IF D(LEFT_SHOULDER) /\ D(RIGHT_SHOULDER)
            THEN Abs(lm[LEFT_SHOULDER].y - lm[RIGHT_SHOULDER].y) > FlagDistance
            ELSE rebaData.trunkTwisted,
         shoulderRaised |->
            IF D(LEFT_SHOULDER) /\ D(LEFT_HIP)
            THEN lm[LEFT_SHOULDER].y - lm[LEFT_HIP].y > FlagDistance
            ELSE IF D(RIGHT_SHOULDER) /\ D(RIGHT_HIP)
            THEN lm[RIGHT_SHOULDER].y - lm[RIGHT_HIP].y > FlagDistance
            ELSE rebaData.shoulderRaised,
         armAbducted |->
            IF newAngles.leftArmAngle # NULL
               /\ newAngles.leftArmAngle > ArmAbductedDegrees * AngleScale
            THEN TRUE
            ELSE IF newAngles.rightArmAngle # NULL
                    /\ newAngles.rightArmAngle > ArmAbductedDegrees * AngleScale
            THEN TRUE
            ELSE rebaData.armAbducted,
         armSupported |->
            IF D(LEFT_ELBOW) /\ D(LEFT_SHOULDER)
            THEN SquaredDistance(lm[LEFT_ELBOW], lm[LEFT_SHOULDER])
                    < FlagDistance * FlagDistance
            ELSE IF D(RIGHT_ELBOW) /\ D(RIGHT_SHOULDER)
            THEN SquaredDistance(lm[RIGHT_ELBOW], lm[RIGHT_SHOULDER])
                    < FlagDistance * FlagDistance
            ELSE rebaData.armSupported,
         wristBent |->
            IF newAngles.leftWristAngle # NULL
               /\ newAngles.leftWristAngle > WristBentDegrees * AngleScale
            THEN TRUE
            ELSE IF newAngles.rightWristAngle # NULL
                    /\ newAngles.rightWristAngle > WristBentDegrees * AngleScale
            THEN TRUE
            ELSE rebaData.wristBent,
         wristTwisted |->
            IF D(LEFT_WRIST) /\ D(LEFT_INDEX)
            THEN findAngleForLimbs(lm[LEFT_WRIST].x, lm[LEFT_WRIST].y,
                                   lm[LEFT_INDEX].x, lm[LEFT_INDEX].y)
                    > WristBentDegrees * AngleScale
            ELSE IF D(RIGHT_WRIST) /\ D(RIGHT_INDEX)
            THEN findAngleForLimbs(lm[RIGHT_WRIST].x, lm[RIGHT_WRIST].y,
                                   lm[RIGHT_INDEX].x, lm[RIGHT_INDEX].y)
                    > WristBentDegrees * AngleScale
            ELSE rebaData.wristTwisted]

\* ------------------------------------------------------- REBA table engine
\* tableA[legsIdx][trunkIdx][neckIdx], tableB[wristIdx][armIdx][forearmIdx],
\* tableC[scoreAIdx][scoreBIdx]; the sequences are 1-based, the indices 0-based.
tableA ==
    << << <<1, 2, 3, 4>>, <<2, 3, 4, 5>>, <<3, 4, 5, 6>>, <<4, 5, 6, 7>>, <<5, 6, 7, 8>> >>,
       << <<1, 2, 3, 4>>, <<3, 4, 5, 6>>, <<4, 5, 6, 7>>, <<5, 6, 7, 8>>, <<6, 7, 8, 9>> >> >>

tableB ==
    << << <<1, 1>>, <<2, 2>>, <<2, 3>>, <<3, 4>>, <<4, 5>>, <<5, 6>> >>,
       << <<1, 2>>, <<2, 3>>, <<3, 4>>, <<4, 5>>, <<5, 6>>, <<6, 7>> >>,
       << <<3, 4>>, <<4, 5>>, <<5, 5>>, <<5, 6>>, <<6, 7>>, <<7, 8>> >> >>

tableCWithDip ==
    << <<1, 1, 1, 2, 3, 3, 4, 5, 6, 7, 7, 7>>,
       <<1, 2, 1, 3, 4, 4, 5, 6, 6, 7, 7, 8>>,
       <<2, 3, 3, 3, 4, 5, 6, 7, 7, 8, 8, 8>>,
       <<3, 4, 4, 4, 5, 6, 7, 8, 8, 9, 9, 9>>,
       <<4, 4, 4, 5, 6, 7, 8, 8, 9, 9, 9, 9>>,
       <<6, 6, 6, 7, 8, 8, 9, 9, 10, 10, 10, 10>>,
       <<7, 7, 7, 8, 9, 9, 9, 10, 10, 11, 11, 11>>,
       <<8, 8, 8, 9, 10, 10, 10, 10, 10, 11, 11, 11>>,
       <<9, 9, 9, 10, 10, 10, 11, 11, 11, 12, 12, 12>>,
       <<10, 10, 10, 11, 11, 11, 11, 12, 12, 12, 12, 12>>,
       <<11, 11, 11, 11, 12, 12, 12, 12, 12, 12, 12, 12>>,
       <<12, 12, 12, 12, 12, 12, 12, 12, 12, 12, 12, 12>> >>

tableC ==
    << <<1, 1, 1, 2, 3, 3, 4, 5, 6, 7, 7, 7>>,
       <<1, 2, 2, 3, 4, 4, 5, 6, 6, 7, 7, 8>>,
       <<2, 3, 3, 3, 4, 5, 6, 7, 7, 8, 8, 8>>,
       <<3, 4, 4, 4, 5, 6, 7, 8, 8, 9, 9, 9>>,
       <<4, 4, 4, 5, 6, 7, 8, 8, 9, 9, 9, 9>>,
       <<6, 6, 6, 7, 8, 8, 9, 9, 10, 10, 10, 10>>,
       <<7, 7, 7, 8, 9, 9, 9, 10, 10, 11, 11, 11>>,
       <<8, 8, 8, 9, 10, 10, 10, 10, 10, 11, 11, 11>>,
       <<9, 9, 9, 10, 10, 10, 11, 11, 11, 12, 12, 12>>,
       <<10, 10, 10, 11, 11, 11, 11, 12, 12, 12, 12, 12>>,
       <<11, 11, 11, 11, 12, 12, 12, 12, 12, 12, 12, 12>>,
       <<12, 12, 12, 12, 12, 12, 12, 12, 12, 12, 12, 12>> >>

\* Math.min(hi, idx) without the lower limit
ClampAbove(idx, hi) == Min2(hi, idx)

\* Math.max(0, Math.min(hi, idx))
Clamp(idx, hi) == Max2(0, Min2(hi, idx))

\* score + 1 capped at cap when the flag is set
PlusOneCapped(score, flag, cap) ==
    IF flag THEN (IF score + 1 > cap THEN cap ELSE score + 1) ELSE score

\* score - 1 floored at floor when the flag is set
MinusOneFloored(score, flag, floor) ==
    IF flag THEN (IF score - 1 < floor THEN floor ELSE score - 1) ELSE score

NeckIdxMax == 5
TrunkIdxMax == 4
LegsIdxMax == 1
ArmIdxMax == 5
ForearmIdxMax == 1
WristIdxMax == 2
ScoreIdxMax == 11
NeckCap == 6
TrunkCap == 6
ArmCap == 6
ArmFloor == 1
WristCap == 3

IndicesAOneBased(scores, flags) ==
    [neckIdxA |-> Clamp(PlusOneCapped(scores.neck, flags.neckTwisted, NeckCap),
                        NeckIdxMax),
     trunkIdxA |-> Clamp(PlusOneCapped(scores.trunk, flags.trunkTwisted, TrunkCap),
                         TrunkIdxMax),
     legsIdxA |-> Clamp(scores.legs, LegsIdxMax)]

\* The clamped indices into Table A.
IndicesA(scores, flags) ==
    [neckIdxA |-> Clamp(PlusOneCapped(scores.neck, flags.neckTwisted, NeckCap) - 1,
                        NeckIdxMax),
     trunkIdxA |-> Clamp(PlusOneCapped(scores.trunk, flags.trunkTwisted, TrunkCap) - 1,
                         TrunkIdxMax),
     legsIdxA |-> Clamp(scores.legs - 1, LegsIdxMax)]

adjustedUpperArmScoreBSupportFirst(score, flags) ==
    PlusOneCapped(
        PlusOneCapped(MinusOneFloored(score, flags.armSupported, ArmFloor),
                      flags.shoulderRaised, ArmCap),
        flags.armAbducted, ArmCap)

adjustedUpperArmScoreB(score, flags) ==
    MinusOneFloored(
        PlusOneCapped(PlusOneCapped(score, flags.shoulderRaised, ArmCap),
                      flags.armAbducted, ArmCap),
        flags.armSupported, ArmFloor)

adjustedWristScoreBOnce(score, flags) ==
    PlusOneCapped(score, flags.wristBent \/ flags.wristTwisted, WristCap)

adjustedWristScoreB(score, flags) ==
    PlusOneCapped(PlusOneCapped(score, flags.wristBent, WristCap),
                  flags.wristTwisted, WristCap)

IndicesBOneBased(scores, flags) ==
    [armIdxB |-> Clamp(adjustedUpperArmScoreB(scores.arm, flags), ArmIdxMax),
     forearmIdxB |-> Clamp(scores.forearm, ForearmIdxMax),
     wristIdxB |-> Clamp(adjustedWristScoreB(scores.wrist, flags), WristIdxMax)]

\* The clamped indices into Table B.
IndicesB(scores, flags) ==
    [armIdxB |-> Clamp(adjustedUpperArmScoreB(scores.arm, flags) - 1, ArmIdxMax),
     forearmIdxB |-> Clamp(scores.forearm - 1, ForearmIdxMax),
     wristIdxB |-> Clamp(adjustedWristScoreB(scores.wrist, flags) - 1, WristIdxMax)]

\* A guarded lookup: the cell when it exists, else the safe default 0.
Lookup3(table, i, j, k) ==
    IF i + 1 \in DOMAIN table /\ j + 1 \in DOMAIN table[i + 1]
       /\ k + 1 \in DOMAIN table[i + 1][j + 1]
    THEN table[i + 1][j + 1][k + 1] ELSE 0

Lookup2(table, i, j) ==
    IF i >= 0 /\ i < Len(table) /\ j >= 0 /\ j < Len(table[i + 1])
    THEN table[i + 1][j + 1] ELSE 0

PostureScoreA(scores, flags) ==
    LET ix == IndicesA(scores, flags)
    IN  Lookup3(tableA, ix.legsIdxA, ix.trunkIdxA, ix.neckIdxA)

PostureScoreB(scores, flags) ==
    LET ix == IndicesB(scores, flags)
    IN  Lookup3(tableB, ix.wristIdxB, ix.armIdxB, ix.forearmIdxB)

\* The clamped indices into Table C.
IndicesC(postureScoreA, postureScoreB) ==
    [scoreAIdx |-> Clamp(postureScoreA - 1, ScoreIdxMax),
     scoreBIdx |-> Clamp(postureScoreB - 1, ScoreIdxMax)]

TableCScore(postureScoreA, postureScoreB) ==
    LET ix == IndicesC(postureScoreA, postureScoreB)
    IN  Lookup2(tableC, ix.scoreAIdx, ix.scoreBIdx)

\* ---------------------------------------------------------- score composer
ForceFrequency == 10
ForceLoadMax == 2
PoorCoupling == 2

forceLoadScoreAdjustmentNever(trunk, neck) == 0

forceLoadScoreAdjustment(trunk, neck) ==
    IF FractionGt(trunk.frequency, ForceFrequency)
       \/ FractionGt(neck.frequency, ForceFrequency)
    THEN 1 ELSE 0

\* A score carried in the state that is not a number: NaN.
NaN == NULL - 2

\* a + b and Math.min(a, b) of JavaScript numbers: NaN when an operand is NaN.
AddNum(a, b) == IF a = NaN \/ b = NaN THEN NaN ELSE a + b

MinNum(a, b) == IF a = NaN \/ b = NaN THEN NaN ELSE Min2(a, b)

scoreCAdjustedWithoutCoupling(tableCScore, forceLoadScore, couplingScore) ==
    AddNum(tableCScore, forceLoadScore)

\* Step 7: the Table C score plus the force/load and coupling scores.
scoreCAdjustedOf(tableCScore, forceLoadScore, couplingScore) ==
    AddNum(AddNum(tableCScore, forceLoadScore), couplingScore)

\* Step 9: typeof activityScore === 'number' also holds for NaN, so the sum is
\* NaN when either operand is.
rebaScoreFinalOf(scoreCAdjusted, activityScore) ==
    AddNum(scoreCAdjusted, activityScore)

\* if (isNaN(rebaScoreFinal)) { rebaScoreFinal = 0; } on the const
\* rebaScoreFinal: the assignment raises a TypeError (esbuild keeps the const).
FinalGuardThrows(rebaScoreFinal) == rebaScoreFinal = NaN

\* Steps 1-9 of updateRebaData on the updated components and flags.
Compose(rebaData, comps, flags) ==
    LET scores == [k \in Segments |-> comps[k].score]
        postureScoreA == PostureScoreA(scores, flags)
        postureScoreB == PostureScoreB(scores, flags)
        tableCScore == TableCScore(postureScoreA, postureScoreB)
        forceLoadScore ==
            MinNum(AddNum(rebaData.forceLoadScore,
                          forceLoadScoreAdjustment(comps["trunk"], comps["neck"])),
                   ForceLoadMax)
        couplingScore ==
            IF flags.wristBent \/ flags.wristTwisted THEN PoorCoupling ELSE 0
        scoreCAdjusted == scoreCAdjustedOf(tableCScore, forceLoadScore, couplingScore)
        rebaScoreFinal == rebaScoreFinalOf(scoreCAdjusted, rebaData.activityScore)
    IN  [comps |-> comps,
         neckTwisted |-> flags.neckTwisted,
         trunkTwisted |-> flags.trunkTwisted,
         shoulderRaised |-> flags.shoulderRaised,
         armAbducted |-> flags.armAbducted,
         armSupported |-> flags.armSupported,
         wristBent |-> flags.wristBent,
         wristTwisted |-> flags.wristTwisted,
         forceLoadScore |-> forceLoadScore,
         couplingScore |-> couplingScore,
         activityScore |-> rebaData.activityScore,
         rebaScore |-> rebaScoreFinal,
         postureScoreA |-> postureScoreA,
         postureScoreB |-> postureScoreB,
         tableCScore |-> tableCScore,
         rebaScoreFinal |-> rebaScoreFinal]

\* updateRebaData(rebaData, newAngles, currentTime, deltaTime, landmarks) with
\* the six exposureTimeBins objects in `bins`.
\*   threw:   a TypeError left the function (nothing is returned), raised by
\*            the flag detection or by the guard of the final score;
\*   mutated: the fields of rebaData's six component objects afterwards;
\*   bins:    the six exposureTimeBins objects afterwards;
\*   updatedData: the returned object (meaningful when threw is FALSE).
updateRebaData(rebaData, bins, newAngles, currentTime, deltaTime, landmarks) ==
    LET upd == [k \in Segments |->
                  updateComponent(rebaData.comps[k], bins[k], k,
                                  ComponentAngle(newAngles, k),
                                  currentTime, deltaTime, landmarks)]
        comps == [k \in Segments |-> upd[k].returned]
        flags == DetectFlags(rebaData, newAngles, landmarks)
    IN  CHOOSE r \in
            {[threw |-> FlagDetectionThrows(landmarks)
                           \/ FinalGuardThrows(composed.rebaScoreFinal),
              mutated |-> [k \in Segments |-> upd[k].mutated],
              bins |-> [k \in Segments |-> upd[k].bins],
              updatedData |->
                 IF FlagDetectionThrows(landmarks)
                       \/ FinalGuardThrows(composed.rebaScoreFinal)
                 THEN rebaData ELSE composed] :
               composed \in {IF FlagDetectionThrows(landmarks) THEN rebaData
                             ELSE Compose(rebaData, comps, flags)}} : TRUE

initialRebaDataValue ==
    [comps |-> [k \in Segments |-> InitialComponent],
     neckTwisted |-> FALSE, trunkTwisted |-> FALSE, shoulderRaised |-> FALSE,
     armAbducted |-> FALSE, armSupported |-> FALSE, wristBent |-> FALSE,
     wristTwisted |-> FALSE,
     forceLoadScore |-> 0, couplingScore |-> 0, activityScore |-> 0,
     rebaScore |-> 0, postureScoreA |-> 0, postureScoreB |-> 0,
     tableCScore |-> 0, rebaScoreFinal |-> 0]

\* ------------------------------------------------------------------ inputs
\* A pose places the landmarks of one detected person: the hips are fixed,
\* every other landmark is its parent plus a vector <<dx, dy>> (y grows
\* downward).  length is the length of the landmark list.
Visibility(profile, i) ==
    CASE profile = "all" -> 90
      [] profile = "none" -> 10
      [] profile = "absent" -> NoVis
      [] profile = "leftOnly" ->
            IF i \in {RIGHT_EAR, RIGHT_SHOULDER, RIGHT_ELBOW, RIGHT_WRIST,
                      RIGHT_INDEX, RIGHT_HIP, RIGHT_KNEE} THEN 10 ELSE 90
      [] profile = "rightOnly" ->
            IF i \in {LEFT_EAR, LEFT_SHOULDER, LEFT_ELBOW, LEFT_WRIST,
                      LEFT_INDEX, LEFT_HIP, LEFT_KNEE} THEN 10 ELSE 90
      [] profile = "noseOnly" ->
            IF i \in {LEFT_EAR, RIGHT_EAR} THEN 10 ELSE 90

Position(p, i) ==
    LET midHip == <<100, 120>>
        midShoulder == <<midHip[1] + p.trunk[1], midHip[2] + p.trunk[2]>>
        leftShoulder == <<midShoulder[1] + 10, midShoulder[2] + p.shoulderDrop>>
        rightShoulder == <<midShoulder[1] - 10, midShoulder[2] - p.shoulderDrop>>
        head == <<midShoulder[1] + p.neck[1], midShoulder[2] + p.neck[2]>>
        leftElbow == <<leftShoulder[1] + p.armL[1], leftShoulder[2] + p.armL[2]>>
        rightElbow == <<rightShoulder[1] + p.armR[1], rightShoulder[2] + p.armR[2]>>
        leftWrist == <<leftElbow[1] + p.forearm[1], leftElbow[2] + p.forearm[2]>>
        rightWrist == <<rightElbow[1] + p.forearm[1], rightElbow[2] + p.forearm[2]>>
    IN  CASE i = NOSE -> head
          [] i = LEFT_EAR -> <<head[1], head[2] + p.earDrop>>
          [] i = RIGHT_EAR -> head
          [] i = LEFT_SHOULDER -> leftShoulder
          [] i = RIGHT_SHOULDER -> rightShoulder
          [] i = LEFT_ELBOW -> leftElbow
          [] i = RIGHT_ELBOW -> rightElbow
          [] i = LEFT_WRIST -> leftWrist
          [] i = RIGHT_WRIST -> rightWrist
          [] i = LEFT_INDEX -> <<leftWrist[1] + p.hand[1], leftWrist[2] + p.hand[2]>>
          [] i = RIGHT_INDEX -> <<rightWrist[1] + p.hand[1], rightWrist[2] + p.hand[2]>>
          [] i = LEFT_HIP -> <<midHip[1] + 10, midHip[2]>>
          [] i = RIGHT_HIP -> <<midHip[1] - 10, midHip[2]>>
          [] i = LEFT_KNEE -> <<midHip[1] + 10 + p.legL[1], midHip[2] + p.legL[2]>>
          [] i = RIGHT_KNEE -> <<midHip[1] - 10 + p.legR[1], midHip[2] + p.legR[2]>>

Landmarks(p) ==
    [length |-> p.length,
     at |-> [i \in UsedLandmarks |->
                [x |-> Position(p, i)[1], y |-> Position(p, i)[2],
                 visibility |-> Visibility(p.vis, i)]]]

FullLength == 33

\* Standing upright, arms hanging, both knees below the hips.
Upright ==
    [length |-> FullLength, vis |-> "all", trunk |-> <<0, -40>>, neck |-> <<0, -24>>,
     shoulderDrop |-> 0, earDrop |-> 0, armL |-> <<0, 30>>, armR |-> <<0, 30>>,
     forearm |-> <<0, 30>>, hand |-> <<0, 10>>, legL |-> <<0, 40>>, legR |-> <<0, 40>>]

\* Trunk and neck at 20.56 degrees and the upper arms at 60.26 degrees (between
\* the declared ranges), both legs at 45 degrees.
BetweenRanges ==
    [Upright EXCEPT !.trunk = <<15, -40>>, !.neck = <<9, -24>>,
                    !.armL = <<28, 16>>, !.armR = <<28, 16>>,
                    !.legL = <<30, 30>>, !.legR = <<30, 30>>]

\* Trunk, neck and upper arms at 26.57 degrees, the hands at 21.8 degrees,
\* one leg at 0 and one at 90 degrees (mean 45, right knee level with the hip).
Leaning ==
    [Upright EXCEPT !.trunk = <<20, -40>>, !.neck = <<12, -24>>,
                    !.armL = <<15, 30>>, !.armR = <<15, 30>>, !.hand = <<4, 10>>,
                    !.legR = <<40, 0>>]

\* Trunk at 75.96 degrees, arms and forearms horizontal, shoulders and ears
\* at different heights.
Bent ==
    [Upright EXCEPT !.trunk = <<40, -10>>, !.armL = <<30, 0>>, !.armR = <<30, 0>>,
                    !.forearm = <<30, 0>>, !.shoulderDrop = 6, !.earDrop = 12,
                    !.legL = <<40, 0>>, !.legR = <<40, 0>>]

PoseShapes == {Upright, BetweenRanges, Leaning, Bent}

\* The landmark lists detectForVideo delivers to one uploaded video: the four
\* shapes, a one-sided detection and an empty list.
VideoFrames ==
    {Landmarks(p) : p \in PoseShapes}
    \cup {Landmarks([Leaning EXCEPT !.vis = "leftOnly"]),
          Landmarks([Upright EXCEPT !.length = 0])}

\* The landmark lists of two streams.
StreamFrames == {Landmarks(Upright), Landmarks(Bent)}

\* Seated: as Upright with both knees level with the hips.
Seated == [Upright EXCEPT !.legL = <<40, 0>>, !.legR = <<40, 0>>]

\* The landmark lists of a video watched under each manual load.
LoadFrames == {Landmarks(Upright), Landmarks(Leaning)}

\* The landmark lists of a video of sustained postures.
SustainedFrames == {Landmarks(Seated), Landmarks(Upright), Landmarks(Leaning)}

\* The landmark lists of a video in which one side or the whole body is lost.
PairFrames ==
    {Landmarks([Leaning EXCEPT !.vis = v]) : v \in {"all", "leftOnly", "rightOnly", "none"}}

FramesOf(sc) ==
    CASE sc = "video" -> VideoFrames
      [] sc = "pairs" -> PairFrames
      [] sc = "streams" -> StreamFrames
      [] sc = "loads" -> LoadFrames
      [] sc = "sustained" -> SustainedFrames
      [] OTHER -> StreamFrames

\* analyzeErgonomics on each of these lists.
AnalyzedFrames ==
    [landmarks \in VideoFrames \cup StreamFrames \cup LoadFrames \cup SustainedFrames
                      \cup PairFrames |->
        analyzeErgonomics(landmarks)]

DeltaTimes == {0, 1}

LoadChoices == {0}

\* Seconds between two ticks of a video of sustained postures.
SustainedDeltaTimes == {0, 35}

DeltaTimesOf(sc) == IF sc = "sustained" THEN SustainedDeltaTimes ELSE DeltaTimes

\* The option values of the cargaSelect element.
LoadOptions == {0, 1, 2}

LoadChoicesOf(sc) == IF sc = "loads" THEN LoadOptions ELSE LoadChoices

\* ------------------------------------------------------------------- state
VARIABLES
    initialRebaData,      \* the exported module object (reba-utils.ts)
    binsHeap,             \* the six exposureTimeBins objects
    currentRef,           \* per session: "initial" or "own" (what currentRebaData is)
    currentOwn,           \* per session: the object updateRebaData returned last
    globalForceLoadScore, \* video-upload.ts module variable
    dialog,               \* the load dialog: "none", "pending", "open"
    now,                  \* performance.now() at the last tick, ms
    frames,               \* frames processed so far (bounded by MaxFrames)
    videos,               \* files chosen so far (bounded by MaxVideos)
    fed,                  \* per session: what the frames of the current video fed
    last,                 \* the last step taken
    scenario,             \* which inputs the run draws: "video" or "streams"
    probe,                \* the table engine applied to drawn scores and flags
    loop                  \* the uploaded video and its prediction loop

vars ==
    <<initialRebaData, binsHeap, currentRef, currentOwn, globalForceLoadScore,
      dialog, now, frames, videos, fed, last, scenario, probe, loop>>

MIXED == NULL - 1

Sessions == DOMAIN currentRef

\* What currentRebaData of session s refers to.
currentRebaData(s) ==
    IF currentRef[s] = "initial" THEN initialRebaData ELSE currentOwn[s]

NoFrames ==
    [count |-> 0, elapsed |-> 0, angle |-> [k \in Segments |-> NULL],
     legsBins |-> {}]

NoStep ==
    [op |-> "init", session |-> 0, deltaTime |-> 0, threw |-> FALSE,
     length |-> 0, angle |-> [k \in Segments |-> NULL], newAngles |-> AllNullAngles]

NoProbe == [phase |-> "none"]

\* The uploaded video element, the module variables of the prediction loop and
\* the browser's queue of animation-frame callbacks, before any file is chosen.
\*   paused, ended, error, currentTime: the video element (currentTime in
\*       video frames);
\*   clock: performance.now(), ms;
\*   pending: requestAnimationFrame(predictUploadedVideo) callbacks not yet run;
\*   updatedAt: performance.now() at the previous updateRebaData call of the
\*       current play interval, NULL before the first;
\*   sincePrevious: seconds between the last two updateRebaData calls of the
\*       current play interval, NULL when there were not two.
StoppedLoop ==
    [uploadVideoPredicting |-> FALSE, lastUploadVideoTime |-> -1,
     lastTimestamp |-> 0, paused |-> TRUE, ended |-> FALSE, error |-> FALSE,
     currentTime |-> 0, clock |-> 0, pending |-> 0, updatedAt |-> NULL,
     sincePrevious |-> NULL]

InitSessions(S, sc) ==
    /\ scenario = sc
    /\ initialRebaData = initialRebaDataValue
    /\ binsHeap = InitialBins
    /\ currentRef = [s \in S |-> "initial"]
    /\ currentOwn = [s \in S |-> initialRebaDataValue]
    /\ globalForceLoadScore = 0
    /\ dialog = "none"
    /\ now = 0
    /\ frames = 0
    /\ videos = 0
    /\ fed = [s \in S |-> NoFrames]
    /\ last = NoStep
    /\ loop = StoppedLoop

Init == InitSessions({1}, "video") /\ probe = NoProbe

InitTwoSessions == InitSessions({1, 2}, "streams") /\ probe = NoProbe

\* handleVideoUpload: a file is chosen; the REBA data is "reset".
HandleVideoUpload(s) ==
    /\ videos < MaxVideos
    /\ dialog = "none"
    /\ videos' = videos + 1
    /\ currentRef' = [currentRef EXCEPT ![s] = "initial"]
    /\ currentOwn' = [currentOwn EXCEPT ![s] = initialRebaDataValue]
    /\ fed' = [fed EXCEPT ![s] = NoFrames]
    /\ dialog' = "pending"
    /\ last' = [NoStep EXCEPT !.op = "upload", !.session = s]
    /\ loop' = [loop EXCEPT !.uploadVideoPredicting = FALSE, !.paused = TRUE,
                            !.ended = FALSE, !.error = FALSE, !.currentTime = 0,
                            !.updatedAt = NULL, !.sincePrevious = NULL]
    /\ UNCHANGED <<initialRebaData, binsHeap, globalForceLoadScore, now, frames, scenario, probe>>

\* uploadedVideo.onloadedmetadata: showCargaDialog()
OnLoadedMetadata ==
    /\ dialog = "pending"
    /\ dialog' = "open"
    /\ last' = [NoStep EXCEPT !.op = "metadata"]
    /\ UNCHANGED <<initialRebaData, binsHeap, currentRef, currentOwn,
                   globalForceLoadScore, now, frames, videos, fed, scenario, probe, loop>>

\* The 'close' listener of the dialog: parseInt of the selected option value,
\* 0 when it is not one of 0, 1, 2.
CargaDialogClose(selectedValue) ==
    /\ dialog = "open"
    /\ dialog' = "none"
    /\ globalForceLoadScore' =
          IF selectedValue < 0 \/ selectedValue > 2 THEN 0 ELSE selectedValue
    /\ last' = [NoStep EXCEPT !.op = "dialog"]
    /\ UNCHANGED <<initialRebaData, binsHeap, currentRef, currentOwn, now, frames,
                   videos, fed, scenario, probe, loop>>

Feed(f, newAngles, deltaTime, landmarks) ==
    [count |-> f.count + 1,
     elapsed |-> f.elapsed + deltaTime,
     angle |-> [k \in Segments |->
                  LET a == ComponentAngle(newAngles, k)
                  IN  IF f.count = 0 THEN (IF a = NULL THEN MIXED ELSE a)
                      ELSE IF a # NULL /\ f.angle[k] = a THEN a ELSE MIXED],
     legsBins |->
        IF ComponentAngle(newAngles, "legs") = NULL THEN f.legsBins
        ELSE f.legsBins \cup
               {getLegsBin(landmarks.at[LEFT_HIP], landmarks.at[RIGHT_HIP],
                           landmarks.at[LEFT_KNEE], landmarks.at[RIGHT_KNEE])}]

\* The result callback of detectForVideo in a tick of predictUploadedVideo of
\* session s, for a result that holds a pose:
\*   currentRebaData.forceLoadScore = globalForceLoadScore;
\*   currentRebaData = updateRebaData(currentRebaData, analyzeErgonomics(landmarks),
\*                                    now, deltaTime, landmarks);
\* A TypeError raised inside the callback is caught by predictUploadedVideo and
\* currentRebaData keeps referring to the object it referred to.
OnPoseResult(s, landmarks, nowValue, deltaTime) ==
    \E based \in {[currentRebaData(s) EXCEPT !.forceLoadScore = globalForceLoadScore]} :
    \E currentAngles \in {AnalyzedFrames[landmarks]} :
    \E r \in {updateRebaData(based, binsHeap, currentAngles, nowValue, deltaTime,
                             landmarks)} :
    \E inPlace \in {[based EXCEPT !.comps = r.mutated]} :
        /\ binsHeap' = r.bins
        /\ initialRebaData' =
              IF currentRef[s] = "initial" THEN inPlace ELSE initialRebaData
        /\ currentRef' =
              IF r.threw THEN currentRef ELSE [currentRef EXCEPT ![s] = "own"]
        /\ currentOwn' =
              IF r.threw
              THEN (IF currentRef[s] = "initial" THEN currentOwn
                    ELSE [currentOwn EXCEPT ![s] = inPlace])
              ELSE [currentOwn EXCEPT ![s] = r.updatedData]
        /\ fed' = [fed EXCEPT ![s] = Feed(@, currentAngles, deltaTime, landmarks)]
        /\ last' = [op |-> "frame", session |-> s, deltaTime |-> deltaTime,
                    threw |-> r.threw, length |-> landmarks.length,
                    angle |-> [k \in Segments |-> ComponentAngle(currentAngles, k)],
                    newAngles |-> currentAngles]

\* A tick of a video that plays without interruption and shows a pose on every
\* tick: elapsed seconds after the previous tick.
ProcessFrame(s, landmarks, elapsed) ==
    /\ frames < MaxFrames
    /\ videos > 0
    /\ dialog = "none"
    /\ \E nowValue \in {now + 1000 * elapsed} :
       \E deltaTime \in {(nowValue - now) \div 1000} :
           /\ now' = nowValue
           /\ OnPoseResult(s, landmarks, nowValue, deltaTime)
    /\ frames' = frames + 1
    /\ UNCHANGED <<globalForceLoadScore, dialog, videos, scenario, probe, loop>>

Next ==
    \/ \E s \in Sessions : HandleVideoUpload(s)
    \/ OnLoadedMetadata
    \/ \E v \in LoadChoicesOf(scenario) : CargaDialogClose(v)
    \/ \E s \in Sessions, landmarks \in FramesOf(scenario), elapsed \in DeltaTimesOf(scenario) :
          ProcessFrame(s, landmarks, elapsed)

Spec == Init /\ [][Next]_vars

SpecTwoSessions == InitTwoSessions /\ [][Next]_vars

\* One session whose user picks any of the three manual loads.
InitLoads == InitSessions({1}, "loads") /\ probe = NoProbe

SpecLoads == InitLoads /\ [][Next]_vars

\* One session whose ticks are 35 s apart.
InitSustained == InitSessions({1}, "sustained") /\ probe = NoProbe

SpecSustained == InitSustained /\ [][Next]_vars

\* One session whose video loses one side or the whole body on some frames.
InitPairs == InitSessions({1}, "pairs") /\ probe = NoProbe

SpecPairs == InitPairs /\ [][Next]_vars

\* ------------------------------------------------- the table engine alone
\* Steps 1-5 of updateRebaData are a function of the six segment scores and the
\* seven flags.  The scores are drawn from -ProbeLow..ProbeHigh (one value for
\* trunk, neck and legs, one for arm, forearm and wrist), the flags from all
\* combinations.
ProbeLow == 10
ProbeHigh == 20

ProbeScores == (0 - ProbeLow)..ProbeHigh

FlagNames ==
    {"neckTwisted", "trunkTwisted", "shoulderRaised", "armAbducted", "armSupported",
     "wristBent", "wristTwisted"}

InitTables ==
    /\ InitSessions({1}, "tables")
    /\ \E a \in ProbeScores, b \in ProbeScores, flags \in [FlagNames -> BOOLEAN] :
          probe = [phase |-> "drawn",
                   scores |-> [trunk |-> a, neck |-> a, legs |-> a,
                               arm |-> b, forearm |-> b, wrist |-> b],
                   flags |-> flags]

LookupTables ==
    /\ probe.phase = "drawn"
    /\ \E postureScoreA \in {PostureScoreA(probe.scores, probe.flags)} :
       \E postureScoreB \in {PostureScoreB(probe.scores, probe.flags)} :
          probe' = [phase |-> "looked",
                    scores |-> probe.scores,
                    flags |-> probe.flags,
                    indicesA |-> IndicesA(probe.scores, probe.flags),
                    indicesB |-> IndicesB(probe.scores, probe.flags),
                    adjustedUpperArmScoreB |->
                        adjustedUpperArmScoreB(probe.scores.arm, probe.flags),
                    adjustedWristScoreB |->
                        adjustedWristScoreB(probe.scores.wrist, probe.flags),
                    postureScoreA |-> postureScoreA,
                    postureScoreB |-> postureScoreB,
                    indicesC |-> IndicesC(postureScoreA, postureScoreB),
                    tableCScore |-> TableCScore(postureScoreA, postureScoreB)]
    /\ UNCHANGED <<initialRebaData, binsHeap, currentRef, currentOwn,
                   globalForceLoadScore, dialog, now, frames, videos, fed, last,
                   scenario, loop>>

SpecTables == InitTables /\ [][LookupTables]_vars

\* ------------------------------------------------------------------ claims
\* What a caller reads from currentRebaData of session s for one segment.
SegmentView(s, k) ==
    [exposureTime |-> currentRebaData(s).comps[k].exposureTime,
     eventCount |-> currentRebaData(s).comps[k].eventCount,
     score |-> currentRebaData(s).comps[k].score,
     exposureTimeBins |-> binsHeap[k]]

RECURSIVE SumOver(_, _)
SumOver(f, keys) ==
    IF keys = {} THEN 0
    ELSE LET b == CHOOSE x \in keys : TRUE IN f[b] + SumOver(f, keys \ {b})

BinSum(bins) == SumOver(bins, DOMAIN bins)

AllZero(bins) == \A b \in DOMAIN bins : bins[b] = 0

\* The declared score of the first bin, in declaration order, that holds the
\* maximum accumulated time.
FirstMaxBinScore(bins, k) ==
    LET declared == REBA_ANGLE_BINS[k]
        T(i) == BinTime(bins, declared[i].range)
        m == CHOOSE i \in 1..Len(declared) :
                /\ \A j \in 1..Len(declared) : T(j) <= T(i)
                /\ \A j \in 1..(i - 1) : T(j) < T(i)
    IN  declared[m].score

\* The sessions whose state is the initial one or was just returned (or left
\* behind) by updateRebaData.
JustUpdated ==
    IF last.op = "init" THEN Sessions
    ELSE IF last.op = "frame" THEN {last.session}
    ELSE {}

\* C1 (as claimed): in the initial state and after every updateRebaData call,
\* each segment's score is the declared score of the first bin holding the
\* maximum accumulated time.
C1_ScoreIsFirstMaxBin ==
    \A s \in JustUpdated, k \in Segments :
        SegmentView(s, k).score = FirstMaxBinScore(binsHeap[k], k)

\* C1 (amended): as C1, when some bin of the segment holds a positive time;
\* the score is 0 while all bins of the segment are 0.
C1_ScoreIsFirstPositiveMaxBin ==
    \A s \in JustUpdated, k \in Segments :
        SegmentView(s, k).score =
            IF AllZero(binsHeap[k]) THEN 0 ELSE FirstMaxBinScore(binsHeap[k], k)

\* C1 witness: after a frame two trunk bins tie at a positive maximum and the
\* score is that of the first of them.
C1_Witness ==
    /\ last.op = "frame"
    /\ binsHeap["trunk"]["0-20"] = 1
    /\ binsHeap["trunk"]["21-60"] = 1
    /\ binsHeap["trunk"]["61+"] = 0
    /\ SegmentView(last.session, "trunk").score = 1

\* C2 (as claimed): until the first frame of a newly selected video, every
\* segment has exposureTime 0, eventCount 0, score 0 and all bins 0.
C2_NewVideoStartsFromZero ==
    \A s \in Sessions, k \in Segments :
        (videos > 0 /\ fed[s].count = 0 /\ currentRef[s] = "initial") =>
            /\ SegmentView(s, k).exposureTime = 0
            /\ SegmentView(s, k).eventCount = 0
            /\ SegmentView(s, k).score = 0
            /\ AllZero(SegmentView(s, k).exposureTimeBins)

\* C3 (as claimed): every clamped index addresses an existing cell of its table.
C3_IndicesAddressCells ==
    probe.phase = "looked" =>
        LET a == probe.indicesA
            b == probe.indicesB
            c == probe.indicesC
        IN  /\ a.legsIdxA + 1 \in DOMAIN tableA
            /\ a.trunkIdxA + 1 \in DOMAIN tableA[a.legsIdxA + 1]
            /\ a.neckIdxA + 1 \in DOMAIN tableA[a.legsIdxA + 1][a.trunkIdxA + 1]
            /\ b.wristIdxB + 1 \in DOMAIN tableB
            /\ b.armIdxB + 1 \in DOMAIN tableB[b.wristIdxB + 1]
            /\ b.forearmIdxB + 1 \in DOMAIN tableB[b.wristIdxB + 1][b.armIdxB + 1]
            /\ c.scoreAIdx + 1 \in DOMAIN tableC
            /\ c.scoreBIdx + 1 \in DOMAIN tableC[c.scoreAIdx + 1]

\* C4 (as claimed): a frame with deltaTime = 0 leaves every bin, the
\* exposureTime and the score of every segment unchanged.
C4_ZeroDeltaChangesNothing ==
    [][\A s \in Sessions, k \in Segments :
          (last'.op = "frame" /\ last'.session = s /\ last'.deltaTime = 0) =>
              /\ SegmentView(s, k).exposureTimeBins' = SegmentView(s, k).exposureTimeBins
              /\ SegmentView(s, k).exposureTime' = SegmentView(s, k).exposureTime
              /\ SegmentView(s, k).score' = SegmentView(s, k).score]_vars

\* C5: within one session (no new video selected in between), no segment's
\* exposureTime and no bin value decreases from one state to the next, whatever
\* the angles and the deltaTime >= 0 of the updateRebaData calls.
C5_ExposureNeverDecreases ==
    [][\A s \in Sessions, k \in Segments :
          last'.op # "upload" =>
              /\ SegmentView(s, k).exposureTime' >= SegmentView(s, k).exposureTime
              /\ \A b \in DOMAIN binsHeap[k] :
                    /\ b \in DOMAIN binsHeap'[k]
                    /\ binsHeap'[k][b] >= binsHeap[k][b]]_vars

\* C5 witness: a second frame has added a positive deltaTime to the trunk.
C5_Witness ==
    /\ last.op = "frame"
    /\ last.deltaTime > 0
    /\ last.angle["trunk"] # NULL
    /\ SegmentView(last.session, "trunk").exposureTime = 2
    /\ BinSum(binsHeap["trunk"]) = 2

\* A session that started from the state the page was loaded with.
Fresh(s) == videos = 1

OneBinHoldsAll(bins, total) ==
    \E b \in DOMAIN bins :
        /\ bins[b] = total
        /\ \A c \in DOMAIN bins \ {b} : bins[c] = 0

\* C6 (as claimed): from a fresh session, the same non-null angle on every
\* frame leaves the whole elapsed time in one bin of the segment, 0 in the rest.
C6_SameAngleOneBin ==
    \A s \in Sessions, k \in Segments :
        (Fresh(s) /\ fed[s].count > 0 /\ fed[s].angle[k] # MIXED) =>
            OneBinHoldsAll(binsHeap[k], fed[s].elapsed)

\* C6 (amended): as C6 for the angle-based segments, and for the legs when the
\* knee-below-hip posture was the same on every frame.
C6_SameAngleSamePostureOneBin ==
    \A s \in Sessions, k \in Segments :
        (/\ Fresh(s) /\ fed[s].count > 0 /\ fed[s].angle[k] # MIXED
         /\ (k = "legs" => Cardinality(fed[s].legsBins) = 1)) =>
            OneBinHoldsAll(binsHeap[k], fed[s].elapsed)

\* C6 witness: three frames fed the trunk 20.56 degrees, one second each.
C6_Witness ==
    /\ Fresh(1)
    /\ fed[1].count = 3
    /\ fed[1].elapsed = 3
    /\ fed[1].angle["trunk"] = 2056
    /\ binsHeap["trunk"]["0-20"] = 3

\* C7 (as claimed): the sum of a segment's bins is at most its exposureTime.
C7_BinsSumAtMostExposure ==
    \A s \in Sessions, k \in Segments :
        BinSum(SegmentView(s, k).exposureTimeBins) <= SegmentView(s, k).exposureTime

\* C8: the labels of each segment's exposureTimeBins are the labels it was
\* initialized with.
C8_BinLabelsFixed ==
    \A k \in Segments : DOMAIN binsHeap[k] = DOMAIN InitialBins[k]

\* C8 witness: a frame has added time for an angle between two declared
\* ranges (20.56 degrees for the trunk, 60.26 degrees for the arm).
C8_Witness ==
    /\ last.op = "frame"
    /\ last.deltaTime = 1
    /\ last.angle["trunk"] = 2056
    /\ last.angle["arm"] = 6026
    /\ binsHeap["arm"]["0-20"] = 1

\* C9 (as claimed): a frame fed to one session changes nothing another session
\* reads of its bins, exposureTime and scores.
C9_SessionsIndependent ==
    [][\A s \in Sessions, t \in Sessions, k \in Segments :
          (last'.op = "frame" /\ last'.session = s /\ t # s) =>
              SegmentView(t, k)' = SegmentView(t, k)]_vars

\* C10 (as claimed): a pass over a list of fewer than 27 landmarks yields twelve
\* null angles, raises nothing and changes no exposureTime and no bin.
C10_ShortListPassCompletes ==
    (last.op = "frame" /\ last.length <= RIGHT_KNEE) =>
        /\ last.newAngles = AllNullAngles
        /\ ~last.threw

\* C11: the activity step as src/src/ergonomics-utils.ts computes it: 1 when
\* trunk or neck exposureTime exceeds StaticSeconds or trunk or neck frequency
\* exceeds RepeatedFrequency events per minute, else 0.
StaticSeconds == 60
RepeatedFrequency == 4

activityScoreOf(trunk, neck) ==
    IF \/ trunk.exposureTime > StaticSeconds
       \/ neck.exposureTime > StaticSeconds
       \/ FractionGt(trunk.frequency, RepeatedFrequency)
       \/ FractionGt(neck.frequency, RepeatedFrequency)
    THEN 1 ELSE 0

\* The session whose frame was just processed and returned a state.
Returned(s) == last.op = "frame" /\ last.session = s /\ ~last.threw

\* C11 (as claimed): after every processed frame activityScore is 1 if trunk or
\* neck exposureTime exceeds 60 s or trunk or neck frequency exceeds 4 events
\* per minute, and 0 otherwise.
C11_ActivityScoreFollowsRule ==
    \A s \in Sessions :
        Returned(s) =>
            currentRebaData(s).activityScore =
                activityScoreOf(currentRebaData(s).comps["trunk"],
                                currentRebaData(s).comps["neck"])

\* C12: after every processed frame that returned a state, rebaScoreFinal is
\* tableCScore + forceLoadScore + couplingScore + activityScore of that state.
C12_FinalIsSumOfParts ==
    \A s \in Sessions :
        Returned(s) =>
            currentRebaData(s).rebaScoreFinal =
                currentRebaData(s).tableCScore + currentRebaData(s).forceLoadScore
                + currentRebaData(s).couplingScore + currentRebaData(s).activityScore

\* C12 witness: a returned state with a force/load score of 2 and a coupling
\* score of 2 on top of a positive Table C score.
C12_Witness ==
    /\ Returned(1)
    /\ currentRebaData(1).forceLoadScore = 2
    /\ currentRebaData(1).couplingScore = 2
    /\ currentRebaData(1).tableCScore > 0
    /\ currentRebaData(1).rebaScoreFinal = currentRebaData(1).tableCScore + 4

\* C13: with the selected base written into the state before each frame,
\* forceLoadScore after the frame is min(base + adj, 2), adj = 1 iff trunk or
\* neck frequency exceeds 10 events per minute; it stays in {0, 1, 2}.
C13_ForceLoadIsCappedSum ==
    \A s \in Sessions :
        Returned(s) =>
            LET d == currentRebaData(s)
                Exceeds(c) == c.frequency.num > 10 * c.frequency.den
                adj == IF Exceeds(d.comps["trunk"]) \/ Exceeds(d.comps["neck"])
                       THEN 1 ELSE 0
                sum == globalForceLoadScore + adj
            IN  /\ d.forceLoadScore = (IF sum > 2 THEN 2 ELSE sum)
                /\ d.forceLoadScore \in {0, 1, 2}

\* C13 witness: base 1 and a trunk frequency above 10 events per minute give 2.
C13_Witness ==
    /\ Returned(1)
    /\ globalForceLoadScore = 1
    /\ currentRebaData(1).comps["trunk"].frequency.num
          > 10 * currentRebaData(1).comps["trunk"].frequency.den
    /\ currentRebaData(1).forceLoadScore = 2

\* The six postural scores of a session state.
PosturalScores(d) == [k \in Segments |-> d.comps[k].score]

\* C14: after every processed frame couplingScore is 2 if the returned state's
\* wristBent or wristTwisted flag is true and 0 otherwise; with postural wrist
\* score 1 and both flags true the adjusted wrist score used for Table B is 3.
C14_CouplingFollowsWristFlags ==
    \A s \in Sessions :
        Returned(s) =>
            LET d == currentRebaData(s)
                ix == IndicesB(PosturalScores(d), d)
            IN  /\ d.couplingScore = (IF d.wristBent \/ d.wristTwisted THEN 2 ELSE 0)
                /\ d.couplingScore \in {0, 2}
                /\ (d.comps["wrist"].score = 1 /\ d.wristBent /\ d.wristTwisted) =>
                      /\ adjustedWristScoreB(d.comps["wrist"].score, d) = 3
                      /\ ix.wristIdxB = 2
                      /\ d.postureScoreB = tableB[3][ix.armIdxB + 1][ix.forearmIdxB + 1]

\* C14 witness: a returned state with postural wrist score 1, the wrist bent
\* and twisted, and coupling score 2.
C14_Witness ==
    /\ Returned(1)
    /\ currentRebaData(1).comps["wrist"].score = 1
    /\ currentRebaData(1).wristBent
    /\ currentRebaData(1).wristTwisted
    /\ currentRebaData(1).couplingScore = 2

\* ------------------------------------------------------- the risk classifier
\* getRebaRiskLevel(rebaScore): the five texts it returns, lowest risk first.
RiskClasses ==
    << "Risco ignoravel, nenhuma acao necessaria",
       "Risco baixo, mudancas podem ser implementadas",
       "Risco medio, investigue mais e aplique possiveis mudancas",
       "Risco alto, investigue a aplique mudancas",
       "Risco muito alto, implemente mudancas o quanto antes" >>

getRebaRiskLevelStrict(rebaScore) ==
    IF rebaScore < 1 THEN RiskClasses[1]
    ELSE IF rebaScore < 3 THEN RiskClasses[2]
    ELSE IF rebaScore < 7 THEN RiskClasses[3]
    ELSE IF rebaScore < 10 THEN RiskClasses[4]
    ELSE RiskClasses[5]

getRebaRiskLevel(rebaScore) ==
    IF rebaScore <= 1 THEN RiskClasses[1]
    ELSE IF rebaScore <= 3 THEN RiskClasses[2]
    ELSE IF rebaScore <= 7 THEN RiskClasses[3]
    ELSE IF rebaScore <= 10 THEN RiskClasses[4]
    ELSE RiskClasses[5]

\* The classifier is applied to two integer scores, low <= high, drawn from
\* -RiskLow..RiskHigh.
RiskLow == 5
RiskHigh == 20

RiskScores == (0 - RiskLow)..RiskHigh

InitRisk ==
    /\ InitSessions({1}, "risk")
    /\ \E low \in RiskScores, high \in RiskScores :
          /\ low <= high
          /\ probe = [phase |-> "scored", low |-> low, high |-> high]

ClassifyRisk ==
    /\ probe.phase = "scored"
    /\ probe' = [phase |-> "classified", low |-> probe.low, high |-> probe.high,
                 lowLevel |-> getRebaRiskLevel(probe.low),
                 highLevel |-> getRebaRiskLevel(probe.high)]
    /\ UNCHANGED <<initialRebaData, binsHeap, currentRef, currentOwn,
                   globalForceLoadScore, dialog, now, frames, videos, fed, last,
                   scenario, loop>>

SpecRisk == InitRisk /\ [][ClassifyRisk]_vars

\* The position of a risk text in the order of the five classes.
RiskRank(level) == CHOOSE i \in DOMAIN RiskClasses : RiskClasses[i] = level

\* The class the thresholds assign to an integer score.
ThresholdClass(score) ==
    CASE score <= 1 -> 1
      [] score \in 2..3 -> 2
      [] score \in 4..7 -> 3
      [] score \in 8..10 -> 4
      [] score >= 11 -> 5

\* C15: getRebaRiskLevel maps every integer score to exactly one of the five
\* classes by the thresholds <= 1, 2..3, 4..7, 8..10, >= 11, and the class never
\* decreases as the score increases.
C15_RiskClassByThresholds ==
    probe.phase = "classified" =>
        /\ probe.lowLevel = RiskClasses[ThresholdClass(probe.low)]
        /\ probe.highLevel = RiskClasses[ThresholdClass(probe.high)]
        /\ Cardinality({i \in DOMAIN RiskClasses : RiskClasses[i] = probe.lowLevel}) = 1
        /\ RiskRank(probe.lowLevel) <= RiskRank(probe.highLevel)

\* C15 witness: 10 is classified high and 11 very high.
C15_Witness ==
    /\ probe.phase = "classified"
    /\ probe.low = 10
    /\ probe.high = 11
    /\ RiskRank(probe.lowLevel) = 4
    /\ RiskRank(probe.highLevel) = 5

\* C16: from a fresh session, with neck and trunk at 0 degrees on every frame
\* for frames totalling 70 seconds, no twist flag set and the legs bilateral on
\* every frame, neck.score = trunk.score = legs.score = 1 and postureScoreA = 1.
C16_UprightSeventySeconds ==
    \A s \in Sessions :
        (/\ Returned(s)
         /\ Fresh(s)
         /\ fed[s].elapsed = 70
         /\ fed[s].angle["neck"] = 0
         /\ fed[s].angle["trunk"] = 0
         /\ fed[s].legsBins = {"bilateral"}
         /\ ~currentRebaData(s).neckTwisted
         /\ ~currentRebaData(s).trunkTwisted) =>
            /\ currentRebaData(s).comps["neck"].score = 1
            /\ currentRebaData(s).comps["trunk"].score = 1
            /\ currentRebaData(s).comps["legs"].score = 1
            /\ currentRebaData(s).postureScoreA = 1

\* C16 witness: two seated frames 35 s apart, then a third with no time elapsed.
C16_Witness ==
    /\ Returned(1)
    /\ Fresh(1)
    /\ fed[1].count = 3
    /\ fed[1].elapsed = 70
    /\ fed[1].angle["neck"] = 0
    /\ fed[1].angle["trunk"] = 0
    /\ fed[1].legsBins = {"bilateral"}
    /\ binsHeap["trunk"]["0-20"] = 70
    /\ currentRebaData(1).postureScoreA = 1

NoFlagSet(d) ==
    /\ ~d.neckTwisted /\ ~d.trunkTwisted /\ ~d.shoulderRaised /\ ~d.armAbducted
    /\ ~d.armSupported /\ ~d.wristBent /\ ~d.wristTwisted

\* C17: with all seven flags false, arm, forearm and wrist postural scores
\* 1, 1, 1 and postureScoreA = 1, a frame yields postureScoreB = 1 and
\* tableCScore = 1; with forceLoadScore, couplingScore and activityScore 0,
\* rebaScoreFinal = 1 and the risk class is the negligible one.
C17_AllOnesScenario ==
    \A s \in Sessions :
        LET d == currentRebaData(s)
        IN  (/\ Returned(s)
             /\ NoFlagSet(d)
             /\ d.comps["arm"].score = 1
             /\ d.comps["forearm"].score = 1
             /\ d.comps["wrist"].score = 1
             /\ d.postureScoreA = 1) =>
                /\ d.postureScoreB = 1
                /\ d.tableCScore = 1
                /\ (d.forceLoadScore = 0 /\ d.couplingScore = 0 /\ d.activityScore = 0) =>
                      /\ d.rebaScoreFinal = 1
                      /\ getRebaRiskLevel(d.rebaScoreFinal) = RiskClasses[1]

\* C17 witness: a seated frame with hanging arms returned such a state.
C17_Witness ==
    LET d == currentRebaData(1)
    IN  /\ Returned(1)
        /\ NoFlagSet(d)
        /\ d.comps["arm"].score = 1
        /\ d.comps["forearm"].score = 1
        /\ d.comps["wrist"].score = 1
        /\ d.postureScoreA = 1
        /\ d.forceLoadScore = 0
        /\ d.couplingScore = 0
        /\ d.activityScore = 0
        /\ d.rebaScoreFinal = 1

\* Table C is a 12 x 12 matrix of integers in 1..12, non-decreasing along each
\* row and along each column.
TableCIsMonotoneMatrix ==
    /\ Len(tableC) = 12
    /\ \A i \in 1..12 :
          /\ Len(tableC[i]) = 12
          /\ \A j \in 1..12 : tableC[i][j] \in 1..12
          /\ \A j \in 1..11 : tableC[i][j] <= tableC[i][j + 1]
    /\ \A i \in 1..11 : \A j \in 1..12 : tableC[i][j] <= tableC[i + 1][j]

\* C18: Table C is a 12x12 integer matrix with every entry in 1..12,
\* non-decreasing along each row and each column, so the tableCScore looked up
\* for (postureScoreA, postureScoreB) is not above the one for a posture score
\* one higher.
C18_TableCNeverDecreases ==
    /\ TableCIsMonotoneMatrix
    /\ probe.phase = "looked" =>
          /\ (probe.postureScoreA \in 1..12 /\ probe.postureScoreB \in 1..12) =>
                probe.tableCScore = tableC[probe.postureScoreA][probe.postureScoreB]
          /\ probe.tableCScore
                <= TableCScore(probe.postureScoreA + 1, probe.postureScoreB)
          /\ probe.tableCScore
                <= TableCScore(probe.postureScoreA, probe.postureScoreB + 1)

\* C18 witness: posture scores 4 and 5 looked up as 5, below the 6 of (5, 5)
\* and the 6 of (4, 6).
C18_Witness ==
    /\ probe.phase = "looked"
    /\ probe.postureScoreA = 4
    /\ probe.postureScoreB = 5
    /\ probe.tableCScore = 5
    /\ TableCScore(5, 5) = 6
    /\ TableCScore(4, 6) = 6

\* ------------------------------------------------ the angle analysis alone
\* analyzeErgonomics on one landmark list: the leaning pose with a visibility
\* drawn for each of the three head landmarks, at most MaxHidden of the other
\* landmarks below the visibility threshold, and 33 or 26 entries.
MaxHidden == 2

HeadLandmarks == {LEFT_EAR, RIGHT_EAR, NOSE}

HeadVisibilities == {NoVis, 10, 30, 50, 90}

ListLengths == {FullLength, RIGHT_KNEE}

WithVisibility(landmarks, visibility, length) ==
    [length |-> length,
     at |-> [i \in UsedLandmarks |->
                [landmarks.at[i] EXCEPT !.visibility = visibility[i]]]]

InitAngles ==
    /\ InitSessions({1}, "angles")
    /\ \E head \in [HeadLandmarks -> HeadVisibilities],
          hidden \in SUBSET (UsedLandmarks \ HeadLandmarks),
          length \in ListLengths :
          /\ Cardinality(hidden) <= MaxHidden
          /\ probe = [phase |-> "frame",
                      landmarks |->
                         WithVisibility(
                            Landmarks(Leaning),
                            [i \in UsedLandmarks |->
                                IF i \in HeadLandmarks THEN head[i]
                                ELSE IF i \in hidden THEN 10 ELSE 90],
                            length)]

AnalyzeFrame ==
    /\ probe.phase = "frame"
    /\ probe' = [phase |-> "analyzed",
                 landmarks |-> probe.landmarks,
                 headReference |->
                    headReference(probe.landmarks.at[LEFT_EAR],
                                  probe.landmarks.at[RIGHT_EAR],
                                  probe.landmarks.at[NOSE]),
                 angles |-> analyzeErgonomics(probe.landmarks)]
    /\ UNCHANGED <<initialRebaData, binsHeap, currentRef, currentOwn,
                   globalForceLoadScore, dialog, now, frames, videos, fed, last,
                   scenario, loop>>

SpecAngles == InitAngles /\ [][AnalyzeFrame]_vars

\* The visibility of landmark i of the analysed list, and whether it is numeric.
VisOf(i) == probe.landmarks.at[i].visibility

Numeric(i) == VisOf(i) # NoVis

\* Landmark i exists in the analysed list and isLandmarkDetected accepts it.
Detected(i) ==
    /\ i < probe.landmarks.length
    /\ (Numeric(i) => VisOf(i) >= VISIBILITY_THRESHOLD)

FirstDetectedHead ==
    IF Detected(LEFT_EAR) THEN LEFT_EAR
    ELSE IF Detected(RIGHT_EAR) THEN RIGHT_EAR
    ELSE IF Detected(NOSE) THEN NOSE
    ELSE NULL

\* Both ears have numeric visibility and at least one clears the threshold.
EarCondition ==
    /\ Numeric(LEFT_EAR) /\ Numeric(RIGHT_EAR)
    /\ (VisOf(LEFT_EAR) >= VISIBILITY_THRESHOLD
        \/ VisOf(RIGHT_EAR) >= VISIBILITY_THRESHOLD)

HigherEars ==
    {e \in {LEFT_EAR, RIGHT_EAR} :
        VisOf(e) >= VisOf(LEFT_EAR) /\ VisOf(e) >= VisOf(RIGHT_EAR)}

MostVisibleHead ==
    LET order == <<LEFT_EAR, RIGHT_EAR, NOSE>>
        best == CHOOSE i \in 1..3 :
                   /\ \A j \in 1..3 : VisOf(order[i]) >= VisOf(order[j])
                   /\ \A j \in 1..(i - 1) : VisOf(order[j]) < VisOf(order[i])
    IN  order[best]

DefiningLandmarks ==
    [neckAngle |-> {LEFT_SHOULDER, RIGHT_SHOULDER},
     trunkAngle |-> {LEFT_SHOULDER, RIGHT_SHOULDER, LEFT_HIP, RIGHT_HIP},
     leftElbowAngle |-> {LEFT_SHOULDER, LEFT_ELBOW, LEFT_WRIST},
     rightElbowAngle |-> {RIGHT_SHOULDER, RIGHT_ELBOW, RIGHT_WRIST},
     leftArmAngle |-> {LEFT_SHOULDER, LEFT_ELBOW},
     rightArmAngle |-> {RIGHT_SHOULDER, RIGHT_ELBOW},
     leftForearmAngle |-> {LEFT_ELBOW, LEFT_WRIST},
     rightForearmAngle |-> {RIGHT_ELBOW, RIGHT_WRIST},
     leftWristAngle |-> {LEFT_WRIST, LEFT_INDEX},
     rightWristAngle |-> {RIGHT_WRIST, RIGHT_INDEX},
     leftLegAngle |-> {LEFT_HIP, LEFT_KNEE},
     rightLegAngle |-> {RIGHT_HIP, RIGHT_KNEE}]

AngleNames == DOMAIN DefiningLandmarks

TwoLandmarkAngles == {a \in AngleNames : Cardinality(DefiningLandmarks[a]) = 2} \ {"neckAngle"}

AllDetected(a) == \A i \in DefiningLandmarks[a] : Detected(i)

\* A non-null angle has all its landmarks detected; the neck also a detected
\* head reference.
NonNullOnlyIfDetected ==
    /\ \A a \in AngleNames : probe.angles[a] # NULL => AllDetected(a)
    /\ probe.angles.neckAngle # NULL =>
          probe.headReference # NULL /\ Detected(probe.headReference)

\* C20 (as claimed): for every frame each angle is non-null only if every
\* landmark it is computed from is detected, and each upper-arm, forearm, wrist
\* and leg angle is non-null exactly when its two landmarks are detected.
C20_NonNullExactlyWhenDetected ==
    probe.phase = "analyzed" =>
        /\ NonNullOnlyIfDetected
        /\ \A a \in TwoLandmarkAngles : probe.angles[a] # NULL <=> AllDetected(a)

\* C20 (amended): for every frame each angle is non-null only if every landmark
\* it is computed from is detected; for a list of at least 27 landmarks each
\* upper-arm, forearm, wrist and leg angle is non-null exactly when its two
\* landmarks are detected, and for a shorter list all twelve angles are null.
C20_NonNullExactlyWhenDetectedInFullList ==
    probe.phase = "analyzed" =>
        /\ NonNullOnlyIfDetected
        /\ IF probe.landmarks.length > RIGHT_KNEE
           THEN \A a \in TwoLandmarkAngles :
                   probe.angles[a] # NULL <=> AllDetected(a)
           ELSE \A a \in AngleNames : probe.angles[a] = NULL

\* C20 witness: a full list whose left elbow alone is below the threshold: the
\* left upper-arm, forearm and elbow angles are null, the left wrist angle and
\* the right upper-arm angle are not.
C20_Witness ==
    /\ probe.phase = "analyzed"
    /\ probe.landmarks.length = FullLength
    /\ ~Detected(LEFT_ELBOW)
    /\ \A i \in UsedLandmarks \ (HeadLandmarks \cup {LEFT_ELBOW}) : Detected(i)
    /\ probe.angles.leftArmAngle = NULL
    /\ probe.angles.leftForearmAngle = NULL
    /\ probe.angles.leftElbowAngle = NULL
    /\ probe.angles.leftWristAngle # NULL
    /\ probe.angles.rightArmAngle # NULL

\* The session state and bins that updateRebaData yields for one frame from the
\* session start state (the exported initial values under the chosen load).
FromSessionStart(landmarks, currentTime, deltaTime) ==
    updateRebaData([initialRebaDataValue EXCEPT !.forceLoadScore = globalForceLoadScore],
                   InitialBins, AnalyzedFrames[landmarks], currentTime, deltaTime,
                   landmarks)

\* C21 (as claimed): the same frames from the session start state yield the same
\* session state in every run: after the first frame of any video of a process
\* the session state and the bins are those updateRebaData yields for that frame
\* from the start state, as they are in the first video.
C21_FirstFrameSameInEveryRun ==
    \A s \in Sessions :
        (last.op = "frame" /\ last.session = s /\ ~last.threw /\ fed[s].count = 1) =>
            \E landmarks \in FramesOf(scenario) :
                /\ AnalyzedFrames[landmarks] = last.newAngles
                /\ landmarks.length = last.length
                /\ currentOwn[s] = FromSessionStart(landmarks, now, last.deltaTime).updatedData
                /\ binsHeap = FromSessionStart(landmarks, now, last.deltaTime).bins

\* ------------------------------------------- updateRebaData on a carried state
\* One call of updateRebaData on the initial values with a forceLoadScore and
\* an activityScore carried in the state, each a number or NaN.
CarriedForceLoadScores == {0, 1, 2, NaN}

CarriedActivityScores == {0, 1, NaN}

InitCarried ==
    /\ InitSessions({1}, "carried")
    /\ \E forceLoadScore \in CarriedForceLoadScores,
          activityScore \in CarriedActivityScores,
          landmarks \in VideoFrames, deltaTime \in DeltaTimes :
          probe = [phase |-> "carried",
                   forceLoadScore |-> forceLoadScore,
                   activityScore |-> activityScore,
                   landmarks |-> landmarks,
                   deltaTime |-> deltaTime]

UpdateCarried ==
    /\ probe.phase = "carried"
    /\ \E r \in {updateRebaData(
                    [initialRebaDataValue EXCEPT
                        !.forceLoadScore = probe.forceLoadScore,
                        !.activityScore = probe.activityScore],
                    InitialBins, AnalyzedFrames[probe.landmarks],
                    1000 * probe.deltaTime, probe.deltaTime, probe.landmarks)} :
          probe' = [phase |-> "updated",
                    forceLoadScore |-> probe.forceLoadScore,
                    activityScore |-> probe.activityScore,
                    landmarks |-> probe.landmarks,
                    deltaTime |-> probe.deltaTime,
                    threw |-> r.threw,
                    rebaScoreFinal |-> r.updatedData.rebaScoreFinal]
    /\ UNCHANGED <<initialRebaData, binsHeap, currentRef, currentOwn,
                   globalForceLoadScore, dialog, now, frames, videos, fed, last,
                   scenario, loop>>

SpecCarried == InitCarried /\ [][UpdateCarried]_vars

\* C22 (as claimed): with a NaN forceLoadScore or activityScore carried in the
\* state, updateRebaData on a full landmark list returns normally and the
\* returned rebaScoreFinal is a number.
C22_NaNBecomesZero ==
    (/\ probe.phase = "updated"
     /\ probe.landmarks.length = FullLength
     /\ (probe.forceLoadScore = NaN \/ probe.activityScore = NaN)) =>
        /\ ~probe.threw
        /\ probe.rebaScoreFinal \in Nat

\* C23: a completed update of a segment with a null angle leaves the segment's
\* angle null and its exposureTime, every bin, eventCount, lastChangeTime and
\* frequency as they were; its score is the score of the first bin holding the
\* greatest time of the unchanged bins (0 while all bins are 0).
C23_NullAngleKeepsHistory ==
    [][\A s \in Sessions, k \in Segments :
          (last'.op = "frame" /\ last'.session = s /\ ~last'.threw
           /\ last'.angle[k] = NULL) =>
              /\ currentRebaData(s)'.comps[k].angle = NULL
              /\ currentRebaData(s)'.comps[k].exposureTime
                    = currentRebaData(s).comps[k].exposureTime
              /\ currentRebaData(s)'.comps[k].eventCount
                    = currentRebaData(s).comps[k].eventCount
              /\ currentRebaData(s)'.comps[k].lastChangeTime
                    = currentRebaData(s).comps[k].lastChangeTime
              /\ currentRebaData(s)'.comps[k].frequency
                    = currentRebaData(s).comps[k].frequency
              /\ binsHeap'[k] = binsHeap[k]
              /\ currentRebaData(s)'.comps[k].score =
                    IF AllZero(binsHeap[k]) THEN 0
                    ELSE FirstMaxBinScore(binsHeap[k], k)]_vars

\* C23 witness: after two seconds in the trunk's second range, a frame without
\* a trunk angle took one more second: the trunk's angle is null, its
\* exposureTime still 2 and its score 2.
C23_Witness ==
    /\ last.op = "frame"
    /\ ~last.threw
    /\ last.deltaTime = 1
    /\ last.angle["trunk"] = NULL
    /\ last.angle["arm"] # NULL
    /\ currentOwn[last.session].comps["trunk"].angle = NULL
    /\ currentOwn[last.session].comps["trunk"].exposureTime = 2
    /\ currentOwn[last.session].comps["trunk"].score = 2
    /\ binsHeap["trunk"]["21-60"] = 2

\* The position, in declaration order, of the first bin holding the greatest
\* accumulated time: the bin that determines the score.
FirstMaxBin(bins, k) ==
    LET declared == REBA_ANGLE_BINS[k]
        T(i) == BinTime(bins, declared[i].range)
    IN  CHOOSE i \in 1..Len(declared) :
           /\ \A j \in 1..Len(declared) : T(j) <= T(i)
           /\ \A j \in 1..(i - 1) : T(j) < T(i)

\* An update of session s follows an earlier update of the same video.
ConsecutiveUpdate(s) ==
    last'.op = "frame" /\ last'.session = s /\ fed[s].count >= 1

\* C24 (as claimed): between two consecutive updates a segment's score changes
\* only when another bin's time becomes strictly greater than the time of the
\* bin that determined the previous score; a bin that merely becomes equal
\* leaves the score as it was.
C24_ScoreChangesOnlyWhenOvertaken ==
    [][\A s \in Sessions, k \in Segments :
          (/\ ConsecutiveUpdate(s)
           /\ ~AllZero(binsHeap[k])
           /\ currentRebaData(s)'.comps[k].score # currentRebaData(s).comps[k].score) =>
              LET declared == REBA_ANGLE_BINS[k]
                  d == FirstMaxBin(binsHeap[k], k)
              IN  \E c \in (1..Len(declared)) \ {d} :
                     binsHeap'[k][declared[c].range] > binsHeap'[k][declared[d].range]]_vars

\* C24 (amended): the score changes only when another bin's time becomes
\* strictly greater than the time of the bin that determined the previous score,
\* or becomes equal to it and that other bin is declared before it; a score of
\* 0 (no time in any bin) changes only when a bin receives time.
C24_ScoreChangesWhenOvertakenOrTiedByEarlier ==
    [][\A s \in Sessions, k \in Segments :
          (/\ ConsecutiveUpdate(s)
           /\ currentRebaData(s)'.comps[k].score # currentRebaData(s).comps[k].score) =>
              LET declared == REBA_ANGLE_BINS[k]
                  d == FirstMaxBin(binsHeap[k], k)
                  After(i) == binsHeap'[k][declared[i].range]
              IN  IF AllZero(binsHeap[k])
                  THEN currentRebaData(s).comps[k].score = 0 /\ ~AllZero(binsHeap'[k])
                  ELSE \E c \in (1..Len(declared)) \ {d} :
                          \/ After(c) > After(d)
                          \/ After(c) = After(d) /\ c < d]_vars

\* C24 witness: the trunk spent a second at 26.57 degrees (score 2), then a
\* second upright: the first range ties with the second and the score is 1.
C24_Witness ==
    /\ last.op = "frame"
    /\ fed[last.session].count = 2
    /\ last.angle["trunk"] = 0
    /\ last.deltaTime = 1
    /\ binsHeap["trunk"]["0-20"] = 1
    /\ binsHeap["trunk"]["21-60"] = 1
    /\ binsHeap["trunk"]["61+"] = 0
    /\ currentRebaData(last.session).comps["trunk"].score = 1

\* Some angle of the set is non-null and exceeds the threshold (in degrees).
Exceeds(angles, degrees) ==
    \E a \in angles : a # NULL /\ a > degrees * AngleScale

\* C25 (as claimed): after every processed frame armAbducted is true iff one of
\* that frame's upper-arm angles exceeds 20 degrees and wristBent is true iff one
\* of that frame's wrist angles exceeds 15 degrees.
C25_FlagsFollowTheFrame ==
    \A s \in Sessions :
        Returned(s) =>
            /\ currentOwn[s].armAbducted
                  <=> Exceeds({last.newAngles.leftArmAngle, last.newAngles.rightArmAngle},
                              ArmAbductedDegrees)
            /\ currentOwn[s].wristBent
                  <=> Exceeds({last.newAngles.leftWristAngle, last.newAngles.rightWristAngle},
                              WristBentDegrees)

\* The landmark lists that the last frame may have been (same length, same
\* twelve angles).
LastLandmarks ==
    {landmarks \in FramesOf(scenario) :
        /\ landmarks.length = last.length
        /\ AnalyzedFrames[landmarks] = last.newAngles}

\* The landmarks the detection of a posture flag derives from are detected.
FlagLandmarksDetected(flag, landmarks) ==
    LET D(i) == isLandmarkDetected(landmarks.at[i])
    IN  CASE flag = "neckTwisted" -> (D(LEFT_EAR) /\ D(RIGHT_EAR)) \/ D(NOSE)
          [] flag = "trunkTwisted" -> D(LEFT_SHOULDER) /\ D(RIGHT_SHOULDER)
          [] flag = "shoulderRaised" ->
                (D(LEFT_SHOULDER) /\ D(LEFT_HIP)) \/ (D(RIGHT_SHOULDER) /\ D(RIGHT_HIP))
          [] flag = "armSupported" ->
                (D(LEFT_ELBOW) /\ D(LEFT_SHOULDER)) \/ (D(RIGHT_ELBOW) /\ D(RIGHT_SHOULDER))
          [] flag = "wristTwisted" ->
                (D(LEFT_WRIST) /\ D(LEFT_INDEX)) \/ (D(RIGHT_WRIST) /\ D(RIGHT_INDEX))

LandmarkFlags ==
    {"neckTwisted", "trunkTwisted", "shoulderRaised", "armSupported", "wristTwisted"}

\* The flags of d with those whose landmarks are not detected left unset.
FlagsOfThisFrame(d, landmarks) ==
    [f \in FlagNames |->
        IF f \in LandmarkFlags /\ ~FlagLandmarksDetected(f, landmarks)
        THEN FALSE ELSE d[f]]

\* C26 (as claimed): a posture flag whose landmarks are not detected in a frame
\* has no value after that frame, and the Table A and Table B scores of that
\* frame are those obtained without that flag's adjustment.
C26_UndetectedFlagHasNoValue ==
    \A s \in Sessions :
        Returned(s) =>
            \A landmarks \in LastLandmarks :
                /\ \A f \in LandmarkFlags :
                      ~FlagLandmarksDetected(f, landmarks) =>
                          currentOwn[s][f] \notin BOOLEAN
                /\ currentOwn[s].postureScoreA =
                      PostureScoreA(PosturalScores(currentOwn[s]),
                                    FlagsOfThisFrame(currentOwn[s], landmarks))
                /\ currentOwn[s].postureScoreB =
                      PostureScoreB(PosturalScores(currentOwn[s]),
                                    FlagsOfThisFrame(currentOwn[s], landmarks))

\* C27: on an update with a non-null angle, eventCount grows by exactly 1 and
\* lastChangeTime becomes the current time iff the stored angle is non-null and
\* differs from the new absolute angle by more than 5 degrees; otherwise both
\* keep their values (so a non-null angle after a stored null is no event).
C27_EventIffAngleMoved ==
    [][\A s \in Sessions, k \in Segments :
          (last'.op = "frame" /\ last'.session = s /\ last'.angle[k] # NULL) =>
              LET before == currentRebaData(s).comps[k]
                  after == currentRebaData(s)'.comps[k]
                  moved == /\ before.angle # NULL
                           /\ Abs(Abs(last'.angle[k]) - before.angle)
                                 > CHANGE_THRESHOLD * AngleScale
              IN  IF moved
                  THEN /\ after.eventCount = before.eventCount + 1
                       /\ after.lastChangeTime = now'
                  ELSE /\ after.eventCount = before.eventCount
                       /\ after.lastChangeTime = before.lastChangeTime]_vars

\* C27 witness: the second frame of a video moved the trunk from 0 to 20.56
\* degrees: one event, recorded at the current time.
C27_Witness ==
    /\ last.op = "frame"
    /\ fed[last.session].count = 2
    /\ last.angle["trunk"] = 2056
    /\ now > 0
    /\ currentRebaData(last.session).comps["trunk"].eventCount = 1
    /\ currentRebaData(last.session).comps["trunk"].lastChangeTime = now

\* An index clamped to the cells 0..hi of a table dimension.
Within(idx, hi) == IF idx < 0 THEN 0 ELSE IF idx > hi THEN hi ELSE idx

\* C28: for every integer postural score and flag combination the adjusted
\* upper-arm score is the score, +1 if shoulderRaised and +1 if armAbducted
\* (each capped at 6), then -1 if armSupported (floored at 1); the adjusted
\* wrist score is the score, +1 if wristBent and +1 if wristTwisted (each capped
\* at 3); the forearm score is used as it is; postureScoreB is the Table B entry
\* at [wrist][arm][forearm] of the adjusted scores minus 1, clamped to the table.
C28_ScoreBFromAdjustedScores ==
    probe.phase = "looked" =>
        LET f == probe.flags
            raised == IF f.shoulderRaised
                      THEN Min2(probe.scores.arm + 1, 6) ELSE probe.scores.arm
            abducted == IF f.armAbducted THEN Min2(raised + 1, 6) ELSE raised
            arm == IF f.armSupported THEN Max2(abducted - 1, 1) ELSE abducted
            bent == IF f.wristBent
                    THEN Min2(probe.scores.wrist + 1, 3) ELSE probe.scores.wrist
            wrist == IF f.wristTwisted THEN Min2(bent + 1, 3) ELSE bent
        IN  /\ probe.adjustedUpperArmScoreB = arm
            /\ probe.adjustedWristScoreB = wrist
            /\ probe.postureScoreB =
                  tableB[Within(wrist - 1, 2) + 1][Within(arm - 1, 5) + 1]
                        [Within(probe.scores.forearm - 1, 1) + 1]

\* C28 witness: upper-arm score 3 with the shoulder raised, the arm abducted
\* and supported gives 4; wrist score 3 with both wrist flags stays 3; with
\* forearm score 3 (clamped to 2) Table B gives 6.
C28_Witness ==
    /\ probe.phase = "looked"
    /\ probe.scores.arm = 3
    /\ probe.flags.shoulderRaised /\ probe.flags.armAbducted /\ probe.flags.armSupported
    /\ probe.flags.wristBent /\ probe.flags.wristTwisted
    /\ probe.adjustedUpperArmScoreB = 4
    /\ probe.adjustedWristScoreB = 3
    /\ probe.postureScoreB = 6

\* The two angles of the analysis that a paired segment is reduced from.
SideAngles(newAngles, k) ==
    CASE k = "legs" -> <<newAngles.leftLegAngle, newAngles.rightLegAngle>>
      [] k = "arm" -> <<newAngles.leftArmAngle, newAngles.rightArmAngle>>
      [] k = "forearm" -> <<newAngles.leftForearmAngle, newAngles.rightForearmAngle>>
      [] k = "wrist" -> <<newAngles.leftWristAngle, newAngles.rightWristAngle>>

PairedSegments == {"legs", "arm", "forearm", "wrist"}

\* C29: for each left/right pair the angle the segment update received, which
\* the segment stores, is the mean of the two absolute angles when both sides
\* are non-null (to the hundredth of a degree), the absolute angle of the one
\* non-null side when exactly one is, and null when both are null.
C29_PairReducedToOneAngle ==
    \A s \in Sessions, k \in PairedSegments :
        Returned(s) =>
            LET left == SideAngles(last.newAngles, k)[1]
                right == SideAngles(last.newAngles, k)[2]
                stored == currentOwn[s].comps[k].angle
            IN  IF left # NULL /\ right # NULL
                THEN /\ 2 * stored <= Abs(left) + Abs(right)
                     /\ Abs(left) + Abs(right) <= 2 * stored + 1
                ELSE IF left # NULL THEN stored = Abs(left)
                ELSE IF right # NULL THEN stored = Abs(right)
                ELSE stored = NULL

\* C29 witness: the left leg at 0 and the right leg at 90 degrees were reduced
\* to 45 degrees.
C29_Witness ==
    /\ Returned(1)
    /\ last.newAngles.leftLegAngle = 0
    /\ last.newAngles.rightLegAngle = 9000
    /\ currentOwn[1].comps["legs"].angle = 4500

\* C30: on every frame whose reduced leg angle is non-null the elapsed time is
\* added to the legs bin "unilateral" iff the left knee's Y is greater than the
\* left hip's Y and the right knee's Y is greater than the right hip's Y, and
\* to "bilateral" otherwise, whatever the leg angle; the other bin keeps its
\* time.
C30_LegsBinFromKneeHeights ==
    [][\A s \in Sessions :
          (last'.op = "frame" /\ last'.session = s /\ last'.angle["legs"] # NULL) =>
              \A landmarks \in {l \in FramesOf(scenario) :
                                  /\ l.length = last'.length
                                  /\ AnalyzedFrames[l] = last'.newAngles} :
                  LET kneesBelow ==
                          /\ landmarks.at[LEFT_KNEE].y > landmarks.at[LEFT_HIP].y
                          /\ landmarks.at[RIGHT_KNEE].y > landmarks.at[RIGHT_HIP].y
                      chosen == IF kneesBelow THEN "unilateral" ELSE "bilateral"
                      other == IF kneesBelow THEN "bilateral" ELSE "unilateral"
                  IN  /\ binsHeap'["legs"][chosen]
                            = binsHeap["legs"][chosen] + last'.deltaTime
                      /\ binsHeap'["legs"][other] = binsHeap["legs"][other]]_vars

\* C30 witness: a second at a mean leg angle of 45 degrees with both knees
\* below the hips and a second at the same mean angle with one knee level
\* with its hip went to different legs bins.
C30_Witness ==
    /\ last.op = "frame"
    /\ fed[last.session].count = 2
    /\ fed[last.session].angle["legs"] = 4500
    /\ last.deltaTime = 1
    /\ binsHeap["legs"]["unilateral"] = 1
    /\ binsHeap["legs"]["bilateral"] = 1

\* ------------------------------------------------- the angle helpers alone
\* findAngle and findAngleForLimbs on one vector from an origin: every
\* direction of the arc-cosine table and its mirror image, at one and at two
\* times its length, and the zero-length vector.
HelperOrigins == {<<0, 0>>, <<100, 120>>}

HelperVectors ==
    {<<0, 0>>}
    \cup {<<side * scale * d[1], scale * d[2]>> :
             d \in DOMAIN AcosDegTable, side \in {-1, 1}, scale \in {1, 2}}

InitHelpers ==
    /\ InitSessions({1}, "helpers")
    /\ \E origin \in HelperOrigins, vector \in HelperVectors :
          probe = [phase |-> "vector", origin |-> origin,
                   deltaX |-> vector[1], deltaY |-> vector[2]]

MeasureVector ==
    /\ probe.phase = "vector"
    /\ LET x1 == probe.origin[1]
           y1 == probe.origin[2]
       IN  probe' = [phase |-> "measured", origin |-> probe.origin,
                     deltaX |-> probe.deltaX, deltaY |-> probe.deltaY,
                     findAngle |->
                        findAngle(x1, y1, x1 + probe.deltaX, y1 + probe.deltaY),
                     findAngleMirrored |->
                        findAngle(x1, y1, x1 - probe.deltaX, y1 + probe.deltaY),
                     findAngleForLimbs |->
                        findAngleForLimbs(x1, y1, x1 + probe.deltaX, y1 + probe.deltaY),
                     findAngleForLimbsMirrored |->
                        findAngleForLimbs(x1, y1, x1 - probe.deltaX, y1 + probe.deltaY)]
    /\ UNCHANGED <<initialRebaData, binsHeap, currentRef, currentOwn,
                   globalForceLoadScore, dialog, now, frames, videos, fed, last,
                   scenario, loop>>

SpecHelpers == InitHelpers /\ [][MeasureVector]_vars

\* C31: findAngle gives 0 degrees for a vector straight up, 90 for a horizontal
\* one and 180 for straight down; findAngleForLimbs gives 0 for straight down,
\* 90 for horizontal and 180 for straight up; both give 0 for the zero-length
\* vector and the same value for a vector and its left/right mirror image.
C31_AxisConvention ==
    probe.phase = "measured" =>
        /\ (probe.deltaX = 0 /\ probe.deltaY < 0) =>
              probe.findAngle = 0 /\ probe.findAngleForLimbs = 180 * AngleScale
        /\ (probe.deltaX # 0 /\ probe.deltaY = 0) =>
              /\ probe.findAngle = 90 * AngleScale
              /\ probe.findAngleForLimbs = 90 * AngleScale
        /\ (probe.deltaX = 0 /\ probe.deltaY > 0) =>
              probe.findAngle = 180 * AngleScale /\ probe.findAngleForLimbs = 0
        /\ (probe.deltaX = 0 /\ probe.deltaY = 0) =>
              probe.findAngle = 0 /\ probe.findAngleForLimbs = 0
        /\ probe.findAngle = probe.findAngleMirrored
        /\ probe.findAngleForLimbs = probe.findAngleForLimbsMirrored

\* C31 witness: a horizontal vector pointing left measures 90 degrees with both
\* helpers, as its mirror image does.
C31_Witness ==
    /\ probe.phase = "measured"
    /\ probe.deltaX < 0
    /\ probe.deltaY = 0
    /\ probe.findAngle = 90 * AngleScale
    /\ probe.findAngleMirrored = 90 * AngleScale
    /\ probe.findAngleForLimbs = 90 * AngleScale

\* ------------------------------------------------- the angle binning alone
\* getRebaAngleBin on two absolute angles a <= b of one angle-based segment,
\* in hundredths of a degree: the bin edges, angles inside the bins and
\* fractional angles between the edges.
AngleBasedSegments == Segments \ {"legs"}

BinnedAngles == {0, 1000, 2000, 2050, 2100, 4000, 6000, 6050, 6100, 9000, 18000}

\* The declared score of a range of a segment.
DeclaredScore(component, range) ==
    LET declared == REBA_ANGLE_BINS[component]
    IN  declared[CHOOSE i \in 1..Len(declared) : declared[i].range = range].score

InitBinning ==
    /\ InitSessions({1}, "binning")
    /\ \E component \in AngleBasedSegments, a \in BinnedAngles, b \in BinnedAngles :
          /\ a <= b
          /\ probe = [phase |-> "angles", component |-> component, a |-> a, b |-> b]

BinAngles ==
    /\ probe.phase = "angles"
    /\ probe' = [phase |-> "binned", component |-> probe.component,
                 a |-> probe.a, b |-> probe.b,
                 binOfA |-> getRebaAngleBin(probe.a, probe.component),
                 binOfB |-> getRebaAngleBin(probe.b, probe.component)]
    /\ UNCHANGED <<initialRebaData, binsHeap, currentRef, currentOwn,
                   globalForceLoadScore, dialog, now, frames, videos, fed, last,
                   scenario, loop>>

SpecBinning == InitBinning /\ [][BinAngles]_vars

\* C32 (as claimed): for two absolute angles a <= b of an angle-based segment,
\* fractional angles between the bin edges included, the declared score of the
\* bin of a is at most the declared score of the bin of b.
C32_BinScoreMonotone ==
    probe.phase = "binned" =>
        DeclaredScore(probe.component, probe.binOfA)
            <= DeclaredScore(probe.component, probe.binOfB)

\* ------------------------------------------------- the score composer alone
\* Steps 1-9 of updateRebaData on the six updated components, the flags of the
\* frame and the force/load base.  A component's score is 0 (nothing detected
\* yet) or a declared score of its segment; the trunk's frequency is 0 or above
\* ForceFrequency events per minute; activityScore is the 0 of initialRebaData,
\* which no step changes.
ReachableScores(k) ==
    {0} \cup {REBA_ANGLE_BINS[k][i].score : i \in 1..Len(REBA_ANGLE_BINS[k])}

TrunkFrequencies == {Frequency(0, 1), Frequency(1, 1)}

InitScoring ==
    /\ InitSessions({1}, "scoring")
    /\ \E scores \in [Segments -> 0..3], base \in LoadOptions,
          frequency \in TrunkFrequencies :
          /\ \A k \in Segments : scores[k] \in ReachableScores(k)
          /\ probe = [phase |-> "prior", scores |-> scores, base |-> base,
                      frequency |-> frequency]

ScoreFrame ==
    /\ probe.phase = "prior"
    /\ \E flags \in [FlagNames -> BOOLEAN] :
       \E r \in {Compose([initialRebaDataValue EXCEPT !.forceLoadScore = probe.base],
                         [k \in Segments |->
                            [InitialComponent EXCEPT
                                !.score = probe.scores[k],
                                !.frequency = IF k = "trunk" THEN probe.frequency
                                              ELSE @]],
                         flags)} :
          probe' = [phase |-> "composed", scores |-> probe.scores,
                    base |-> probe.base, frequency |-> probe.frequency,
                    flags |-> flags,
                    postureScoreA |-> r.postureScoreA,
                    postureScoreB |-> r.postureScoreB,
                    tableCScore |-> r.tableCScore,
                    forceLoadScore |-> r.forceLoadScore,
                    couplingScore |-> r.couplingScore,
                    rebaScoreFinal |-> r.rebaScoreFinal]
    /\ UNCHANGED <<initialRebaData, binsHeap, currentRef, currentOwn,
                   globalForceLoadScore, dialog, now, frames, videos, fed, last,
                   scenario, loop>>

SpecScoring == InitScoring /\ [][ScoreFrame]_vars

\* C33: after a frame, whatever the prior scores, the flags and the force/load
\* base in 0..2, postureScoreA is in 1..9, postureScoreB in 1..8, tableCScore
\* in 1..12 and rebaScoreFinal an integer in 1..17; none of them is 0, also
\* when every segment score is still 0.
C33_ScoresWithinRanges ==
    probe.phase = "composed" =>
        /\ probe.postureScoreA \in 1..9
        /\ probe.postureScoreB \in 1..8
        /\ probe.tableCScore \in 1..12
        /\ probe.rebaScoreFinal \in 1..17

\* A frame with no segment detected yet: every score is 0, every index is
\* clamped up to 0 and the three tables give 1.
C33_Witness ==
    /\ probe.phase = "composed"
    /\ \A k \in Segments : probe.scores[k] = 0
    /\ probe.postureScoreA = 1
    /\ probe.postureScoreB = 1
    /\ probe.tableCScore = 1
    /\ probe.rebaScoreFinal = 1

\* ------------------------------------------------- the uploaded-video loop
\* The play, pause, ended and error handlers of the uploaded video, the
\* animation-frame callbacks and predictUploadedVideo itself.  The pose
\* landmarker is loaded.  A media event is handled as soon as the video changes
\* state; animation-frame callbacks run at any later moment.
MaxSeconds == 3
MaxPending == 2

\* What detectForVideo hands to its callback: no pose, or the first pose.
PlaybackFrames == {Landmarks(Upright), Landmarks([Upright EXCEPT !.length = 0])}

DetectionResults ==
    {[found |-> FALSE, landmarks |-> Landmarks(Upright)]}
    \cup {[found |-> TRUE, landmarks |-> l] : l \in PlaybackFrames}

InitPlayback == InitSessions({1}, "playback") /\ probe = NoProbe

Playing(lp) == ~lp.paused /\ ~lp.ended /\ ~lp.error

\* performance.now() advances by one second; a playing video may show its next
\* frame.
AdvanceClock ==
    /\ loop.clock < 1000 * MaxSeconds
    /\ \E shown \in (IF Playing(loop) THEN {0, 1} ELSE {0}) :
          loop' = [loop EXCEPT !.clock = @ + 1000, !.currentTime = @ + shown]
    /\ last' = [NoStep EXCEPT !.op = "clock"]
    /\ UNCHANGED <<initialRebaData, binsHeap, currentRef, currentOwn,
                   globalForceLoadScore, dialog, now, frames, videos, fed,
                   scenario, probe>>

\* predictUploadedVideo() entered with the loop in state lp; result is what
\* detectForVideo would report for the frame on screen.
PredictUploadedVideo(lp, result) ==
    IF ~lp.uploadVideoPredicting \/ lp.ended \/ lp.paused
    THEN /\ loop' = [lp EXCEPT !.uploadVideoPredicting = FALSE]
         /\ last' = [NoStep EXCEPT !.op = "tick"]
         /\ UNCHANGED <<initialRebaData, binsHeap, currentRef, currentOwn, now,
                        frames, fed>>
    ELSE \E nowValue \in {lp.clock} :
         \E deltaTime \in {(nowValue - lp.lastTimestamp) \div 1000} :
            /\ now' = nowValue
            /\ IF lp.currentTime # lp.lastUploadVideoTime /\ result.found
               THEN /\ \E s \in Sessions :
                          OnPoseResult(s, result.landmarks, nowValue, deltaTime)
                    /\ frames' = frames + 1
                    /\ loop' = [lp EXCEPT
                          !.lastTimestamp = nowValue,
                          !.lastUploadVideoTime = lp.currentTime,
                          !.uploadVideoPredicting = ~last'.threw,
                          !.pending = IF last'.threw THEN @ ELSE @ + 1,
                          !.updatedAt = nowValue,
                          !.sincePrevious =
                              IF lp.updatedAt = NULL THEN NULL
                              ELSE (nowValue - lp.updatedAt) \div 1000]
               ELSE /\ loop' = [lp EXCEPT
                          !.lastTimestamp = nowValue,
                          !.lastUploadVideoTime = lp.currentTime,
                          !.pending = @ + 1]
                    /\ last' = [NoStep EXCEPT !.op = "tick"]
                    /\ UNCHANGED <<initialRebaData, binsHeap, currentRef,
                                   currentOwn, frames, fed>>

\* The results a call of predictUploadedVideo in state lp can meet: the
\* detection runs only on a new video frame of a running loop.
ResultsFor(lp) ==
    IF lp.uploadVideoPredicting /\ ~lp.ended /\ ~lp.paused
       /\ lp.currentTime # lp.lastUploadVideoTime
    THEN {r \in DetectionResults : r.found => frames < MaxFrames}
    ELSE {[found |-> FALSE, landmarks |-> Landmarks(Upright)]}

\* uploadedVideo.onplay: the video starts or resumes (from its start after it
\* ended); a stopped loop is restarted with a direct call.
OnPlay ==
    /\ videos > 0
    /\ dialog = "none"
    /\ ~loop.error
    /\ loop.paused \/ loop.ended
    /\ loop.pending < MaxPending
    /\ \E video \in {[loop EXCEPT !.paused = FALSE, !.ended = FALSE,
                                  !.currentTime = IF loop.ended THEN 0 ELSE @,
                                  !.updatedAt = NULL, !.sincePrevious = NULL]} :
          IF ~video.uploadVideoPredicting
          THEN \E lp \in {[video EXCEPT !.uploadVideoPredicting = TRUE,
                                        !.lastUploadVideoTime = -1,
                                        !.lastTimestamp = video.clock]} :
               \E result \in ResultsFor(lp) : PredictUploadedVideo(lp, result)
          ELSE /\ loop' = video
               /\ last' = [NoStep EXCEPT !.op = "play"]
               /\ UNCHANGED <<initialRebaData, binsHeap, currentRef, currentOwn,
                              now, frames, fed>>
    /\ UNCHANGED <<globalForceLoadScore, dialog, videos, scenario, probe>>

\* uploadedVideo.onpause
OnPause ==
    /\ Playing(loop)
    /\ loop' = [loop EXCEPT !.paused = TRUE, !.uploadVideoPredicting = FALSE]
    /\ last' = [NoStep EXCEPT !.op = "pause"]
    /\ UNCHANGED <<initialRebaData, binsHeap, currentRef, currentOwn,
                   globalForceLoadScore, dialog, now, frames, videos, fed,
                   scenario, probe>>

\* uploadedVideo.onended
OnEnded ==
    /\ Playing(loop)
    /\ loop' = [loop EXCEPT !.ended = TRUE, !.uploadVideoPredicting = FALSE]
    /\ last' = [NoStep EXCEPT !.op = "ended"]
    /\ UNCHANGED <<initialRebaData, binsHeap, currentRef, currentOwn,
                   globalForceLoadScore, dialog, now, frames, videos, fed,
                   scenario, probe>>

\* uploadedVideo.onerror: the video cannot be played until another file is
\* chosen.
OnError ==
    /\ videos > 0
    /\ ~loop.error
    /\ loop' = [loop EXCEPT !.error = TRUE, !.uploadVideoPredicting = FALSE]
    /\ last' = [NoStep EXCEPT !.op = "error"]
    /\ UNCHANGED <<initialRebaData, binsHeap, currentRef, currentOwn,
                   globalForceLoadScore, dialog, now, frames, videos, fed,
                   scenario, probe>>

\* The browser runs one pending requestAnimationFrame(predictUploadedVideo)
\* callback.
AnimationFrame ==
    /\ loop.pending > 0
    /\ \E lp \in {[loop EXCEPT !.pending = @ - 1]} :
       \E result \in ResultsFor(lp) : PredictUploadedVideo(lp, result)
    /\ UNCHANGED <<globalForceLoadScore, dialog, videos, scenario, probe>>

NextPlayback ==
    \/ \E s \in Sessions : HandleVideoUpload(s)
    \/ OnLoadedMetadata
    \/ \E v \in LoadChoicesOf(scenario) : CargaDialogClose(v)
    \/ AdvanceClock
    \/ OnPlay
    \/ OnPause
    \/ OnEnded
    \/ OnError
    \/ AnimationFrame

SpecPlayback == InitPlayback /\ [][NextPlayback]_vars

\* C34 (as claimed): whatever the interleaving of play, pause, ended and error
\* events with pending animation-frame callbacks, at most one
\* predictUploadedVideo callback is scheduled at any time.
C34_AtMostOneChain == loop.pending <= 1

\* C35 (as claimed): while a video plays, the deltaTime passed to an
\* updateRebaData call is the wall-clock time since the previous updateRebaData
\* call of the same play interval, so that ticks without a new video frame or
\* without a pose do not drop their elapsed time.
C35_DeltaTimeSincePreviousUpdate ==
    (last.op = "frame" /\ loop.sincePrevious # NULL) =>
        last.deltaTime = loop.sincePrevious

====
